---- MODULE Spec2Model ----
(***************************************************************************)
(* Verification model of the onlyoffice-fnos connector: the atomic         *)
(* document store (internal/file), the signing module (internal/jwt), the  *)
(* callback protocol handler and the session-descriptor builder            *)
(* (internal/server, internal/editor, internal/format).                    *)
(*                                                                         *)
(* Strings the code inspects character by character (file paths) are       *)
(* sequences of one-character strings: "/r/a" is <<"/","r","/","a">>.      *)
(***************************************************************************)
EXTENDS Integers, Sequences, FiniteSets, TLC

\* ------------------------------------------------------------------ bounds
\* concurrent callers of SaveFile
NumProcs == 3
\* size of the pool of random names os.CreateTemp draws from
NumTmp == 2
\* longest byte stream handed to SaveFile
MaxBody == 2
\* longest caller-supplied path explored by the file-service specification
MaxPathLen == 5
\* largest size cap the file service is configured with
MaxCap == 1
\* last instant of the clock
MaxTime == 2
\* SaveFile calls made in one run
MaxCalls == 3
\* bits of an int64 in the model
IntBits == 3
\* GenerateSecret calls made in one run
MaxSecrets == 5
\* words in a REQUEST_URI
MaxURILen == 5

VARIABLES
    basePath,      \* Service.basePath
    maxFileSize,   \* Service.maxFileSize
    calls,         \* SaveFile calls made so far
    dirs,          \* directories that exist
    dir,           \* directory entries: file path -> inode
    files,         \* inode -> bytes
    want,          \* history: inode -> the whole stream its writer was given
    lastRename,    \* history: destination -> stream of the last completed rename
    active,        \* the goroutines that serve requests
    sv,            \* per goroutine: the locals of its SaveFile call
    rd,            \* the handle GetFileContent returned to its caller
    api,           \* the last return of a file-service call
    paths,         \* the paths callers ask for in this run
    settingsFile,  \* the settings file SettingsStore reads
    now,           \* the clock, in seconds
    cb,            \* per goroutine: the callback request it is handling
    jw,            \* the signing module's last call
    baseURL,       \* Server.baseURL
    ed,            \* the last descriptor request and what it was answered
    cv,            \* per goroutine: the conversion request it is handling
    dk,            \* history: the GetDocumentKey calls and their keys
    gs,            \* history: the secrets GenerateSecret returned, in order
    px,            \* the request the reverse proxy is forwarding
    cg             \* the CGI process: its REQUEST_URI and what it recovered from it

fsVars == <<basePath, maxFileSize, calls, dirs, dir, files, want, lastRename, active, sv, rd, api,
            paths>>
\* what no file-service step touches
extVars == <<cv, dk, gs, px, cg>>
descVars == <<baseURL, ed, extVars>>
others == <<settingsFile, now, cb, jw, descVars>>

Procs == 1..NumProcs
Bytes == {0, 1}
Inodes == 1..(NumProcs + NumTmp + 4)

SeqsUpTo(S, n) == UNION {[1..k -> S] : k \in 0..n}
Range(f) == {f[x] : x \in DOMAIN f}

Bodies == SeqsUpTo(Bytes, MaxBody)

\* ------------------------------------------------ strings and path/filepath
Root == <<"/">>
Dot == <<".">>
DotDot == <<".", ".">>

\* strings.HasPrefix
HasPrefix(s, prefix) ==
    /\ Len(prefix) <= Len(s)
    /\ SubSeq(s, 1, Len(prefix)) = prefix

\* strings.Split(s, "/")
RECURSIVE SplitSlash(_)
SplitSlash(s) ==
    IF \A i \in 1..Len(s) : s[i] # "/" THEN <<s>>
    ELSE LET i == CHOOSE k \in 1..Len(s) :
                      s[k] = "/" /\ \A j \in 1..(k - 1) : s[j] # "/"
         IN <<SubSeq(s, 1, i - 1)>> \o SplitSlash(SubSeq(s, i + 1, Len(s)))

\* strings.Join(segs, "/")
RECURSIVE JoinSlash(_)
JoinSlash(segs) ==
    IF segs = <<>> THEN <<>>
    ELSE IF Len(segs) = 1 THEN segs[1]
    ELSE segs[1] \o <<"/">> \o JoinSlash(Tail(segs))

\* the element walk of filepath.Clean: drop "" and ".", resolve ".."
RECURSIVE CleanSegs(_, _, _)
CleanSegs(segs, rooted, out) ==
    IF segs = <<>> THEN out
    ELSE LET seg == Head(segs)
             rest == Tail(segs)
         IN IF seg = <<>> \/ seg = Dot THEN CleanSegs(rest, rooted, out)
            ELSE IF seg = DotDot
                 THEN IF out # <<>> /\ out[Len(out)] # DotDot
                      THEN CleanSegs(rest, rooted, SubSeq(out, 1, Len(out) - 1))
                      ELSE IF rooted THEN CleanSegs(rest, rooted, out)
                      ELSE CleanSegs(rest, rooted, Append(out, seg))
                 ELSE CleanSegs(rest, rooted, Append(out, seg))

\* filepath.Clean
Clean(path) ==
    IF path = <<>> THEN Dot
    ELSE LET rooted == path[1] = "/"
             segs == CleanSegs(SplitSlash(path), rooted, <<>>)
         IN IF rooted THEN Root \o JoinSlash(segs)
            ELSE IF segs = <<>> THEN Dot ELSE JoinSlash(segs)

\* filepath.IsAbs
IsAbs(path) == HasPrefix(path, Root)

\* filepath.Join of two elements
Join(a, b) ==
    IF a = <<>> THEN (IF b = <<>> THEN <<>> ELSE Clean(b))
    ELSE IF b = <<>> THEN Clean(a)
    ELSE Clean(a \o <<"/">> \o b)

\* the working directory filepath.Abs resolves a relative path against
Cwd == Root

\* filepath.Abs
Abs(path) == IF IsAbs(path) THEN Clean(path) ELSE Join(Cwd, path)

\* filepath.Dir
Dir(path) ==
    IF \A i \in 1..Len(path) : path[i] # "/" THEN Dot
    ELSE LET i == CHOOSE k \in 1..Len(path) :
                      path[k] = "/" /\ \A j \in (k + 1)..Len(path) : path[j] # "/"
         IN Clean(SubSeq(path, 1, i))

\* a directory and every directory above it, as os.MkdirAll creates them
RECURSIVE Ancestors(_)
Ancestors(d) == IF d = Root \/ d = Dot THEN {d} ELSE {d} \cup Ancestors(Dir(d))

\* ------------------------------------------------------------ resolvePath
PathOk(p) == [ok |-> TRUE, path |-> p]
PathErr == [ok |-> FALSE, path |-> <<>>]

\* Service.resolvePath
resolvePath(base, path) ==
    IF path = <<>> THEN PathErr
    ELSE LET p1 == IF ~HasPrefix(path, Root) THEN Root \o path ELSE path
             cleanPath == Clean(p1)
         IN IF base # <<>>
            THEN LET joined == IF ~IsAbs(cleanPath) THEN Join(base, cleanPath)
                               ELSE cleanPath
                     absPath == Abs(joined)
                     absBase == Abs(base)
                 IN IF ~HasPrefix(absPath, absBase) THEN PathErr
                    ELSE PathOk(absPath)
            ELSE PathOk(cleanPath)

\* ------------------------------------------------------------- int64
\* the largest int64, and int64 arithmetic, at IntBits bits
MaxInt64 == 2^(IntBits - 1) - 1
WrapInt64(x) == ((x + 2^(IntBits - 1)) % 2^IntBits) - 2^(IntBits - 1)

\* ------------------------------------------------------------- file system
Link(d, name, ino) ==
    [n \in (DOMAIN d) \cup {name} |-> IF n = name THEN ino ELSE d[n]]
Unlink(d, name) == [n \in (DOMAIN d) \ {name} |-> d[n]]

\* inodes that a directory entry or an open descriptor still refers to
Live(d, s, r) == Range(d) \cup {s[p].fd : p \in Procs} \cup {r.fd}
\* an inode nothing refers to is gone
Sweep(f, live) == [i \in Inodes |-> IF i \in live THEN f[i] ELSE <<>>]

\* the k-th name os.CreateTemp(dir, ".tmp-*") can pick
TempPath(d, k) ==
    (IF d = Root THEN Root ELSE d \o <<"/">>) \o <<".tmp-", ToString(k)>>

IdleSave ==
    [pc |-> "idle", fullPath |-> <<>>, tempPath |-> <<>>, fd |-> 0,
     body |-> <<>>, src |-> <<>>, written |-> 0, err |-> "nil", fault |-> "none"]

IdleRead == [pc |-> "idle", fd |-> 0, full |-> <<>>]

NoCall == [op |-> "none", err |-> "nil", full |-> <<>>, data |-> <<>>, whole |-> <<>>]

\* calls in flight
InFlight == Cardinality({p \in Procs : sv[p].pc # "idle"}) + (IF rd.pc = "open" THEN 1 ELSE 0)
\* a goroutine is free to take the next call
CanStart == InFlight < Cardinality(active)

\* SaveFile up to the registration of its deferred cleanup:
\* resolvePath, os.MkdirAll, os.CreateTemp
SaveBegin(p, path, body) ==
    LET r == resolvePath(basePath, path)
        d == Dir(r.path)
        s0 == [IdleSave EXCEPT !.body = body, !.src = body]
    IN IF ~r.ok
       THEN /\ sv' = [sv EXCEPT ![p] = [IdleSave EXCEPT !.pc = "ret", !.err = "InvalidPath"]]
            /\ UNCHANGED <<dirs, dir, files, want>>
       ELSE \/ \* os.MkdirAll fails (always when a file is in the way)
               /\ d \notin dirs
               /\ sv' = [sv EXCEPT ![p] = [IdleSave EXCEPT !.pc = "ret", !.fullPath = r.path,
                                            !.err = "SaveFailed", !.fault = "mkdir"]]
               /\ UNCHANGED <<dirs, dir, files, want>>
            \/ \* os.CreateTemp fails
               /\ Ancestors(d) \cap DOMAIN dir = {}
               /\ dirs' = dirs \cup Ancestors(d)
               /\ sv' = [sv EXCEPT ![p] = [IdleSave EXCEPT !.pc = "ret", !.fullPath = r.path,
                                            !.err = "SaveFailed", !.fault = "createtemp"]]
               /\ UNCHANGED <<dir, files, want>>
            \/ \* os.CreateTemp picks a name that does not exist (O_EXCL)
               /\ Ancestors(d) \cap DOMAIN dir = {}
               /\ \E k \in 1..NumTmp :
                    LET tp == TempPath(d, k)
                        ino == CHOOSE i \in Inodes :
                                   /\ i \notin Live(dir, sv, rd)
                                   /\ \A j \in Inodes : j < i => j \in Live(dir, sv, rd)
                    IN /\ tp \notin DOMAIN dir
                       /\ dirs' = dirs \cup Ancestors(d)
                       /\ dir' = Link(dir, tp, ino)
                       /\ files' = [files EXCEPT ![ino] = <<>>]
                       /\ want' = [want EXCEPT ![ino] = body]
                       /\ sv' = [sv EXCEPT ![p] = [s0 EXCEPT !.pc = "copy",
                                     !.fullPath = r.path, !.tempPath = tp, !.fd = ino]]

\* CopyN that stops at maxFileSize bytes
CopyLimitExact(cap) == cap

\* the n of io.CopyN(tempFile, content, s.maxFileSize+1)
CopyLimit(cap) == WrapInt64(cap + 1)

\* one chunk of io.CopyN(tempFile, content, maxFileSize+1) / io.Copy
SaveCopy(p) ==
    /\ p \in active
    /\ sv[p].pc = "copy"
    /\ LET s == sv[p]
           n == CopyLimit(maxFileSize)
           \* io.LimitReader(content, n) is at EOF: n bytes were read or n <= 0
           limited == maxFileSize > 0 /\ (n <= 0 \/ s.written = n)
       IN
       IF limited /\ s.written > maxFileSize
       THEN /\ sv' = [sv EXCEPT ![p] = [s EXCEPT !.pc = "defer", !.err = "FileTooLarge",
                                                 !.src = <<>>, !.written = 0]]
            /\ UNCHANGED files
       ELSE IF limited
       THEN /\ sv' = [sv EXCEPT ![p] = [s EXCEPT !.pc = "close", !.src = <<>>,
                                                 !.written = 0]]
            /\ UNCHANGED files
       ELSE \/ \* the reader fails
               /\ sv' = [sv EXCEPT ![p] = [s EXCEPT !.pc = "defer", !.err = "SaveFailed",
                                                    !.fault = "read", !.src = <<>>,
                                                    !.written = 0]]
               /\ UNCHANGED files
            \/ \* the reader is at EOF
               /\ s.src = <<>>
               /\ sv' = [sv EXCEPT ![p] = [s EXCEPT !.pc = "close", !.written = 0]]
               /\ UNCHANGED files
            \/ \* the write to the temporary file fails
               /\ s.src # <<>>
               /\ sv' = [sv EXCEPT ![p] = [s EXCEPT !.pc = "defer", !.err = "SaveFailed",
                                                    !.fault = "write", !.src = <<>>,
                                                    !.written = 0]]
               /\ UNCHANGED files
            \/ \* one more byte reaches the temporary file through its descriptor
               /\ s.src # <<>>
               /\ files' = [files EXCEPT ![s.fd] = Append(@, Head(s.src))]
               /\ sv' = [sv EXCEPT ![p] = [s EXCEPT !.src = Tail(s.src),
                                                    !.written = s.written + 1]]
    /\ UNCHANGED <<basePath, maxFileSize, calls, dirs, dir, want, lastRename, active, rd, api, paths, others>>

\* tempFile.Close() before the rename
SaveClose(p) ==
    /\ p \in active
    /\ sv[p].pc = "close"
    /\ \E ok \in BOOLEAN :
         LET s == sv[p]
             sv2 == [sv EXCEPT ![p] =
                        IF ok THEN [s EXCEPT !.pc = "rename", !.fd = 0]
                        ELSE [s EXCEPT !.pc = "defer", !.fd = 0, !.err = "SaveFailed",
                                       !.fault = "close"]]
             live == Live(dir, sv2, rd)
         IN /\ sv' = sv2
            /\ files' = Sweep(files, live)
            /\ want' = Sweep(want, live)
    /\ UNCHANGED <<basePath, maxFileSize, calls, dirs, dir, lastRename, active, rd, api, paths, others>>

\* os.Rename(tempPath, fullPath)
SaveRename(p) ==
    /\ p \in active
    /\ sv[p].pc = "rename"
    /\ LET s == sv[p] IN
       \/ \* the rename fails (always when the temporary name is gone or the
          \* destination is a directory)
          /\ sv' = [sv EXCEPT ![p] = [s EXCEPT !.pc = "defer", !.err = "SaveFailed",
                                               !.fault = "rename"]]
          /\ UNCHANGED <<dir, files, want, lastRename>>
       \/ /\ s.tempPath \in DOMAIN dir
          /\ s.fullPath \notin dirs
          /\ LET d2 == Link(Unlink(dir, s.tempPath), s.fullPath, dir[s.tempPath])
                 live == Live(d2, sv, rd)
             IN /\ dir' = d2
                /\ files' = Sweep(files, live)
                /\ want' = Sweep(want, live)
                /\ lastRename' = Link(lastRename, s.fullPath, s.body)
          /\ sv' = [sv EXCEPT ![p] = [s EXCEPT !.pc = "defer"]]
    /\ UNCHANGED <<basePath, maxFileSize, calls, dirs, active, rd, api, paths, others>>

\* the deferred func without its os.Remove
SaveDeferKeep(p) ==
    /\ p \in active
    /\ sv[p].pc = "defer"
    /\ LET s == sv[p]
           sv2 == [sv EXCEPT ![p] = [IdleSave EXCEPT !.pc = "ret", !.fullPath = s.fullPath,
                                                      !.err = s.err, !.fault = s.fault]]
           live == Live(dir, sv2, rd)
       IN /\ dir' = dir
          /\ sv' = sv2
          /\ files' = Sweep(files, live)
          /\ want' = Sweep(want, live)
    /\ UNCHANGED <<basePath, maxFileSize, calls, dirs, lastRename, active, rd, api, paths, others>>

\* the deferred func: tempFile.Close(); os.Remove(tempPath)
SaveDefer(p) ==
    /\ p \in active
    /\ sv[p].pc = "defer"
    /\ LET s == sv[p]
           d2 == IF s.tempPath \in DOMAIN dir THEN Unlink(dir, s.tempPath) ELSE dir
           sv2 == [sv EXCEPT ![p] = [IdleSave EXCEPT !.pc = "ret", !.fullPath = s.fullPath,
                                                      !.err = s.err, !.fault = s.fault]]
           live == Live(d2, sv2, rd)
       IN /\ dir' = d2
          /\ sv' = sv2
          /\ files' = Sweep(files, live)
          /\ want' = Sweep(want, live)
    /\ UNCHANGED <<basePath, maxFileSize, calls, dirs, lastRename, active, rd, api, paths, others>>

\* Service.SaveFile called on goroutine p
SaveFile(p, bodies) ==
    /\ p \in active
    /\ sv[p].pc = "idle"
    /\ \A q \in active : q < p => sv[q].pc # "idle"
    /\ CanStart
    /\ calls < MaxCalls
    /\ calls' = calls + 1
    /\ \E path \in paths, body \in bodies : SaveBegin(p, path, body)
    /\ api' = NoCall
    /\ UNCHANGED <<basePath, maxFileSize, lastRename, active, rd, paths, others>>

\* SaveFile returns to its caller
SaveReturn(p) ==
    /\ p \in active
    /\ sv[p].pc = "ret"
    /\ cb[p].pc # "saving"
    /\ api' = [op |-> "SaveFile", err |-> sv[p].err, full |-> sv[p].fullPath,
               data |-> <<>>, whole |-> <<>>]
    /\ sv' = [sv EXCEPT ![p] = IdleSave]
    /\ UNCHANGED <<basePath, maxFileSize, calls, dirs, dir, files, want, lastRename, active, rd, paths, others>>

\* Service.GetFileInfo
GetFileInfo ==
    /\ CanStart
    /\ \E path \in paths :
         LET r == resolvePath(basePath, path) IN
         IF ~r.ok
         THEN api' = [NoCall EXCEPT !.op = "GetFileInfo", !.err = "InvalidPath"]
         ELSE IF r.path \in dirs
         THEN api' = [NoCall EXCEPT !.op = "GetFileInfo", !.err = "InvalidPath",
                                    !.full = r.path]
         ELSE IF r.path \notin DOMAIN dir
         THEN api' = [NoCall EXCEPT !.op = "GetFileInfo", !.err = "FileNotFound",
                                    !.full = r.path]
         ELSE \E denied \in BOOLEAN :
                api' = [NoCall EXCEPT !.op = "GetFileInfo", !.full = r.path,
                           !.err = IF denied THEN "PermissionDenied" ELSE "nil"]
    /\ UNCHANGED <<basePath, maxFileSize, calls, dirs, dir, files, want, lastRename, active, sv, rd, paths, others>>

\* Service.GetFileContent: os.Open hands the caller a descriptor
GetFileContent ==
    /\ rd.pc = "idle"
    /\ CanStart
    /\ \E path \in paths :
         LET r == resolvePath(basePath, path) IN
         IF ~r.ok
         THEN /\ api' = [NoCall EXCEPT !.op = "GetFileContent", !.err = "InvalidPath"]
              /\ rd' = rd
         ELSE IF r.path \notin DOMAIN dir
         THEN /\ api' = [NoCall EXCEPT !.op = "GetFileContent", !.err = "FileNotFound",
                                       !.full = r.path]
              /\ rd' = rd
         ELSE \/ /\ api' = [NoCall EXCEPT !.op = "GetFileContent",
                               !.err = "PermissionDenied", !.full = r.path]
                 /\ rd' = rd
              \/ /\ rd' = [pc |-> "open", fd |-> dir[r.path], full |-> r.path]
                 /\ api' = NoCall
    /\ UNCHANGED <<basePath, maxFileSize, calls, dirs, dir, files, want, lastRename, active, sv, paths, others>>

\* the caller reads the descriptor to EOF and closes it
ReadAll ==
    /\ rd.pc = "open"
    /\ api' = [op |-> "GetFileContent", err |-> "nil", full |-> rd.full,
               data |-> files[rd.fd], whole |-> want[rd.fd]]
    /\ rd' = IdleRead
    /\ LET live == Live(dir, sv, IdleRead)
       IN /\ files' = Sweep(files, live)
          /\ want' = Sweep(want, live)
    /\ UNCHANGED <<basePath, maxFileSize, calls, dirs, dir, lastRename, active, sv, paths, others>>

\* ---------------------------------------------------------- signing module
\* JSON values: a claim value is a string or a number
Str(x) == [t |-> "str", s |-> x, n |-> 0]
Num(x) == [t |-> "int", s |-> "", n |-> x]
Float(x) == [t |-> "float", s |-> "", n |-> x]

\* encoding/json: what a value comes back as after Marshal and Unmarshal into
\* interface{} (every number is a float64)
JSONValue(v) == IF v.t = "int" THEN Float(v.n) ELSE v
Marshal(claims) == [k \in DOMAIN claims |-> JSONValue(claims[k])]

\* the signing string: the header (its alg) and the claims segment
SigningString(alg, payload) == [alg |-> alg, payload |-> payload]
\* the HMAC of a signing string under a key, as an ideal MAC
HMAC(key, msg) == [key |-> key, msg |-> msg]
\* the algorithms of jwt.SigningMethodHMAC
HMACAlgs == {"HS256", "HS384", "HS512"}

NoClaims == [k \in {} |-> Str("")]
\* the empty string, and a string that is no three-segment token
NoToken == [form |-> "empty", alg |-> "", payload |-> NoClaims, mac |-> HMAC("", SigningString("", NoClaims))]
Malformed == [form |-> "malformed", alg |-> "", payload |-> NoClaims, mac |-> HMAC("", SigningString("", NoClaims))]

\* Manager.Sign
Sign(secret, claims) ==
    [form |-> "jwt", alg |-> "HS256", payload |-> Marshal(claims),
     mac |-> HMAC(secret, SigningString("HS256", Marshal(claims)))]

\* Manager.SignWithExpiry at instant t
SignWithExpiry(secret, claims, expiry, t) ==
    Sign(secret, [k \in (DOMAIN claims) \cup {"exp"} |->
                     IF k = "exp" THEN Num(t + expiry) ELSE claims[k]])

\* an unsigned token, header alg "none"
Unsigned(claims) ==
    [form |-> "jwt", alg |-> "none", payload |-> Marshal(claims), mac |-> HMAC("", SigningString("", NoClaims))]

Verified(claims) == [err |-> "nil", claims |-> claims]
Rejected(e) == [err |-> e, claims |-> NoClaims]

\* the registered-claims validation jwt.Parse runs after the signature check:
\* exp must be a number the clock is before, nbf a number the clock has reached
ClaimsError(payload, t) ==
    IF "exp" \in DOMAIN payload /\ payload["exp"].t = "float" /\ ~(t < payload["exp"].n)
    THEN "ExpiredToken"
    ELSE IF "exp" \in DOMAIN payload /\ payload["exp"].t # "float" THEN "InvalidToken"
    ELSE IF "nbf" \in DOMAIN payload /\ payload["nbf"].t # "float" THEN "InvalidToken"
    ELSE IF "nbf" \in DOMAIN payload /\ t < payload["nbf"].n THEN "InvalidToken"
    ELSE "nil"

\* Verify without the signature check
VerifyUnsigned(secret, token, t) ==
    IF token.form # "jwt" THEN Rejected("InvalidToken")
    ELSE IF ClaimsError(token.payload, t) # "nil"
    THEN Rejected(ClaimsError(token.payload, t))
    ELSE Verified(token.payload)

\* Manager.Verify at instant t
Verify(secret, token, t) ==
    IF token.form # "jwt" THEN Rejected("InvalidToken")
    ELSE IF token.alg \notin HMACAlgs THEN Rejected("InvalidToken")
    ELSE IF token.mac # HMAC(secret, SigningString(token.alg, token.payload))
    THEN Rejected("InvalidToken")
    ELSE IF ClaimsError(token.payload, t) # "nil"
    THEN Rejected(ClaimsError(token.payload, t))
    ELSE Verified(token.payload)

Secrets == {"", "s1", "s2"}
ClaimKeys == {"key", "exp", "nbf"}
ClaimValues == {Str("k")} \cup {Num(n) : n \in 0..MaxTime}
ClaimMaps == UNION {[D -> ClaimValues] : D \in SUBSET ClaimKeys}

\* secret, claims: what was signed; token, key, at, res: what Verify was
\* given, when, and what it returned
NoJwt == [op |-> "none", secret |-> "", claims |-> NoClaims, token |-> NoToken,
          key |-> "", at |-> 0, res |-> Rejected("none")]

\* a caller signs a claim map
JwtSign ==
    /\ jw.op = "none"
    /\ \E s \in Secrets, c \in ClaimMaps :
         jw' = [NoJwt EXCEPT !.op = "Sign", !.secret = s, !.claims = c,
                             !.token = Sign(s, c)]
    /\ UNCHANGED <<fsVars, settingsFile, now, cb, descVars>>

\* a caller signs a claim map with a time to live (negative: already expired)
JwtSignWithExpiry ==
    /\ jw.op = "none"
    /\ \E s \in Secrets, c \in [{"key"} -> {Str("k")}], ttl \in {-1, 0, 1} :
         /\ now + ttl \in 0..MaxTime
         /\ jw' = [NoJwt EXCEPT !.op = "SignWithExpiry", !.secret = s,
                      !.claims = [k \in {"key", "exp"} |->
                                     IF k = "exp" THEN Num(now + ttl) ELSE c[k]],
                      !.token = SignWithExpiry(s, c, ttl, now)]
    /\ UNCHANGED <<fsVars, settingsFile, now, cb, descVars>>

\* a caller verifies the token signed last, or a string that is no token
JwtVerify ==
    /\ jw.op \in {"Sign", "SignWithExpiry"}
    /\ \E s \in Secrets, tok \in {jw.token, NoToken, Malformed, Unsigned(jw.claims)} :
         jw' = [jw EXCEPT !.op = "Verify", !.key = s, !.token = tok, !.at = now,
                          !.res = Verify(s, tok, now)]
    /\ UNCHANGED <<fsVars, settingsFile, now, cb, descVars>>

\* the caller is done with the result
JwtReturn ==
    /\ jw.op = "Verify"
    /\ jw' = NoJwt
    /\ UNCHANGED <<fsVars, settingsFile, now, cb, descVars>>

\* time passes
Tick ==
    /\ now < MaxTime
    /\ now' = now + 1
    /\ UNCHANGED <<fsVars, settingsFile, cb, jw, descVars>>

\* ------------------------------------------------------------ settings store
\* config.Settings as the file holds it; state: the file is absent
\* ("missing"), does not decode ("corrupt"), or decodes ("ok")
NoSettings == [state |-> "missing", secret |-> "", serverURL |-> <<>>, baseURL |-> <<>>]

\* ------------------------------------------------- callback protocol handler
StatusEditing == 1
StatusSaved == 2
StatusSaveError == 3
StatusClosed == 4
StatusForceSave == 6
StatusForceSaveError == 7
\* a status code the protocol does not define
StatusUnknown == 5

Statuses == {StatusEditing, StatusSaved, StatusSaveError, StatusClosed, StatusForceSave,
             StatusForceSaveError, StatusUnknown}

\* SettingsStore.Load: the file is absent, unreadable, or holds the settings
SettingsFiles ==
    {[NoSettings EXCEPT !.state = st] : st \in {"missing", "corrupt"}}
    \cup {[state |-> "ok", secret |-> sec, serverURL |-> <<"d">>, baseURL |-> <<"b">>] :
             sec \in {"", "s1"}}

\* the tokens a callback may carry: none, a non-token, tokens signed with the
\* configured and with another secret, and one whose exp has passed
CallbackClaims == [key |-> Str("k")]
ExpiredClaims == [key |-> Str("k"), exp |-> Num(0)]
\* the payload the Document Server signs for a Saved callback of session k
\* with result URL u, and the payload of the session descriptor the browser
\* is handed for the same session
SavedClaims == [key |-> Str("k"), status |-> Num(StatusSaved), url |-> Str("u")]
SessionClaims ==
    [document |-> Str("k"), documentType |-> Str("word"), editorConfig |-> Str("edit")]
CallbackTokens ==
    {NoToken, Malformed, Sign("s1", CallbackClaims), Sign("s2", CallbackClaims),
     Sign("s1", ExpiredClaims), Sign("s1", SavedClaims), Sign("s1", SessionClaims)}

\* a body that does not decode has no fields
BadRequests(ps) ==
    [path : ps, wellFormed : {FALSE}, status : {0}, url : {""}, token : {NoToken}]
Requests(ps) ==
    [path : ps, wellFormed : {TRUE}, status : Statuses, url : {"", "u"},
     token : CallbackTokens] \cup BadRequests(ps)

\* documents of every length up to MaxBody, two of each length
DocumentBodies == {b \in Bodies : \A i \in 2..Len(b) : b[i] = 0}

\* what client.Get(documentURL) comes back with
Downloads ==
    [kind : {"failed", "status"}, body : {<<>>}] \cup [kind : {"ok"}, body : DocumentBodies]
NoDownload == [kind |-> "none", body |-> <<>>]

NoRequest == [path |-> <<>>, wellFormed |-> FALSE, status |-> 0, url |-> "", token |-> NoToken]
NoFile == [exists |-> FALSE, data |-> <<>>]
IdleCallback ==
    [pc |-> "idle", req |-> NoRequest, resp |-> -1, gate |-> "none", got |-> NoDownload,
     stored |-> FALSE, before |-> NoFile]

\* the file a caller path names, as the store holds it now
StoredAt(path) ==
    LET r == resolvePath(basePath, path)
    IN IF r.ok /\ r.path \in DOMAIN dir
       THEN [exists |-> TRUE, data |-> files[dir[r.path]]]
       ELSE NoFile

\* CallbackGate that lets a request without a token through
CallbackGateTokenOptional(req, settings, t) ==
    IF req.path = <<>> THEN "nopath"
    ELSE IF ~req.wellFormed THEN "badjson"
    ELSE IF settings.state = "corrupt" THEN "settings"
    ELSE IF settings.state = "ok" /\ settings.secret # "" /\ req.token # NoToken
    THEN IF Verify(settings.secret, req.token, t).err # "nil" THEN "badtoken"
         ELSE "verified"
    ELSE "pass"

\* CallbackGate without the path check
CallbackGateNoPath(req, settings, t) ==
    IF ~req.wellFormed THEN "badjson"
    ELSE IF settings.state = "corrupt" THEN "settings"
    ELSE IF settings.state = "ok" /\ settings.secret # ""
    THEN IF req.token = NoToken THEN "notoken"
         ELSE IF Verify(settings.secret, req.token, t).err # "nil" THEN "badtoken"
         ELSE "verified"
    ELSE "pass"

\* handleCallback up to the status switch: the check that ends the call, or "pass"
CallbackGate(req, settings, t) ==
    IF req.path = <<>> THEN "nopath"
    ELSE IF ~req.wellFormed THEN "badjson"
    ELSE IF settings.state = "corrupt" THEN "settings"
    ELSE IF settings.state = "ok" /\ settings.secret # ""
    THEN IF req.token = NoToken THEN "notoken"
         ELSE IF Verify(settings.secret, req.token, t).err # "nil" THEN "badtoken"
         ELSE "verified"
    ELSE "pass"

\* the status switch with SaveError taken for a save
SavesDocumentOnError(status) == status \in {StatusSaved, StatusForceSave, StatusSaveError}

\* the status switch: does this status download and save
SavesDocument(status) == status \in {StatusSaved, StatusForceSave}

\* handleCallback, through saveDocument's download and the start of SaveFile
HandleCallback(p) ==
    /\ p \in active
    /\ cb[p].pc = "idle"
    /\ sv[p].pc = "idle"
    /\ CanStart
    /\ \E req \in Requests(paths \cup {<<>>}) :
         LET gate == CallbackGate(req, settingsFile, now)
             c0 == [IdleCallback EXCEPT !.req = req, !.gate = gate,
                                        !.before = StoredAt(req.path)]
             answer(e, d) == /\ cb' = [cb EXCEPT ![p] = [c0 EXCEPT !.pc = "done",
                                                         !.resp = e, !.got = d]]
                             /\ UNCHANGED <<dirs, dir, files, want, sv>>
         IN IF gate \notin {"pass", "verified"} THEN answer(1, NoDownload)
            ELSE IF ~SavesDocument(req.status) THEN answer(0, NoDownload)
            ELSE IF req.url = "" THEN answer(1, NoDownload)
            ELSE \E d \in Downloads :
                   IF d.kind # "ok" THEN answer(1, d)
                   ELSE /\ SaveBegin(p, req.path, d.body)
                        /\ cb' = [cb EXCEPT ![p] = [c0 EXCEPT !.pc = "saving", !.got = d,
                                                              !.stored = TRUE]]
    /\ api' = NoCall
    /\ UNCHANGED <<basePath, maxFileSize, calls, lastRename, active, rd, paths,
                   settingsFile, now, jw, descVars>>

\* saveDocument returns and handleCallback answers
CallbackRespond(p) ==
    /\ p \in active
    /\ cb[p].pc = "saving"
    /\ sv[p].pc = "ret"
    /\ cb' = [cb EXCEPT ![p] = [@ EXCEPT !.pc = "done",
                                         !.resp = IF sv[p].err = "nil" THEN 0 ELSE 1]]
    /\ api' = [op |-> "SaveFile", err |-> sv[p].err, full |-> sv[p].fullPath,
               data |-> <<>>, whole |-> <<>>]
    /\ sv' = [sv EXCEPT ![p] = [IdleSave EXCEPT !.fault = sv[p].fault]]
    /\ UNCHANGED <<basePath, maxFileSize, calls, dirs, dir, files, want, lastRename, active, rd,
                   paths, settingsFile, now, jw, descVars>>

\* the response is on the wire; the goroutine is free for the next request
CallbackReturn(p) ==
    /\ p \in active
    /\ cb[p].pc = "done"
    /\ cb' = [cb EXCEPT ![p] = IdleCallback]
    /\ sv' = [sv EXCEPT ![p] = IdleSave]
    /\ UNCHANGED <<basePath, maxFileSize, calls, dirs, dir, files, want, lastRename, active, rd,
                   api, paths, settingsFile, now, jw, descVars>>

\* ---------------------------------------------------------- format registry
\* strings.ToLower, on the letters the model uses
Lowers ==
    [D |-> "d", O |-> "o", C |-> "c", X |-> "x", Z |-> "z", H |-> "h", E |-> "e", N |-> "n"]
LowerChar(c) == IF c \in DOMAIN Lowers THEN Lowers[c] ELSE c
ToLower(s) == [i \in DOMAIN s |-> LowerChar(s[i])]

\* strings.TrimPrefix, strings.TrimSuffix
TrimPrefix(s, prefix) ==
    IF HasPrefix(s, prefix) THEN SubSeq(s, Len(prefix) + 1, Len(s)) ELSE s
TrimSuffix(s, suffix) ==
    IF Len(s) >= Len(suffix) /\ SubSeq(s, Len(s) - Len(suffix) + 1, Len(s)) = suffix
    THEN SubSeq(s, 1, Len(s) - Len(suffix))
    ELSE s

\* format.Format
EditableFormat(type) ==
    [Type |-> type, Editable |-> TRUE, ViewOnly |-> FALSE, Convertible |-> FALSE,
     ConvertTarget |-> <<>>]
ConvertibleFormat(type, target) ==
    [Type |-> type, Editable |-> FALSE, ViewOnly |-> FALSE, Convertible |-> TRUE,
     ConvertTarget |-> target]
ViewOnlyFormat(type) ==
    [Type |-> type, Editable |-> FALSE, ViewOnly |-> TRUE, Convertible |-> FALSE,
     ConvertTarget |-> <<>>]
NoFormat ==
    [Type |-> "", Editable |-> FALSE, ViewOnly |-> FALSE, Convertible |-> FALSE,
     ConvertTarget |-> <<>>]

Docx == <<"d", "o", "c", "x">>
Xlsx == <<"x", "l", "s", "x">>
Pptx == <<"p", "p", "t", "x">>

\* Manager.formats after initFormats
formats ==
    (Docx :> EditableFormat("word")) @@
    (Xlsx :> EditableFormat("cell")) @@
    (Pptx :> EditableFormat("slide")) @@
    (<<"d", "o", "c">> :> ConvertibleFormat("word", Docx)) @@
    (<<"o", "d", "t">> :> ConvertibleFormat("word", Docx)) @@
    (<<"r", "t", "f">> :> ConvertibleFormat("word", Docx)) @@
    (<<"t", "x", "t">> :> ConvertibleFormat("word", Docx)) @@
    (<<"x", "l", "s">> :> ConvertibleFormat("cell", Xlsx)) @@
    (<<"o", "d", "s">> :> ConvertibleFormat("cell", Xlsx)) @@
    (<<"c", "s", "v">> :> ConvertibleFormat("cell", Xlsx)) @@
    (<<"p", "p", "t">> :> ConvertibleFormat("slide", Pptx)) @@
    (<<"o", "d", "p">> :> ConvertibleFormat("slide", Pptx)) @@
    (<<"p", "d", "f">> :> ViewOnlyFormat("word")) @@
    (<<"d", "j", "v", "u">> :> ViewOnlyFormat("word")) @@
    (<<"o", "x", "p", "s">> :> ViewOnlyFormat("word")) @@
    (<<"e", "p", "u", "b">> :> ViewOnlyFormat("word")) @@
    (<<"f", "b", "2">> :> ViewOnlyFormat("word"))

\* Manager.GetFormat
GetFormat(extension) ==
    LET ext == ToLower(TrimPrefix(extension, Dot))
    IN IF ext \in DOMAIN formats
       THEN [ok |-> TRUE, f |-> formats[ext]]
       ELSE [ok |-> FALSE, f |-> NoFormat]

\* Manager.IsEditable
IsEditable(extension) ==
    GetFormat(extension).ok /\ GetFormat(extension).f.Editable

\* IsConvertible that holds of every format the registry knows
IsConvertibleKnown(extension) == GetFormat(extension).ok

\* Manager.IsConvertible
IsConvertible(extension) ==
    GetFormat(extension).ok /\ GetFormat(extension).f.Convertible

\* ------------------------------------------------------ session descriptor
Slash == <<"/">>
\* "http://localhost:10099" and "http://localhost:8080"
Localhost10099 == <<"localhost:10099">>
Localhost8080 == <<"localhost:8080">>

\* a JSON object as a claim value
Obj(x) == [t |-> "obj", v |-> x]

\* url.QueryEscape
QueryEscape(filePath) == [escaped |-> filePath]

\* hex.EncodeToString: two lower-case digits per byte
HexDigits ==
    <<"0", "1", "2", "3", "4", "5", "6", "7", "8", "9", "a", "b", "c", "d", "e", "f">>
EncodeToString(bytes) ==
    [i \in 1..(2 * Len(bytes)) |->
        IF i % 2 = 1 THEN HexDigits[(bytes[(i + 1) \div 2] \div 16) + 1]
        ELSE HexDigits[(bytes[i \div 2] % 16) + 1]]

\* sha256.Sum256 as an ideal hash: of names the data hashed, so different
\* data have different sums; sum stands in for the 32 bytes
Sum256(data) ==
    [of |-> data, sum |-> [i \in 1..32 |-> (data.modTime * 131 + i * 17) % 256]]

\* a key that depends on the time of the call
generateDocumentKeyClock(filePath, modTime) ==
    LET hash == Sum256([path |-> filePath, modTime |-> now])
    IN [of |-> hash.of, text |-> SubSeq(EncodeToString(hash.sum), 1, 20)]

\* ConfigBuilder.generateDocumentKey: the first 20 characters of the hex
\* form of SHA-256 over "path|modTime"
generateDocumentKey(filePath, modTime) ==
    LET hash == Sum256([path |-> filePath, modTime |-> modTime])
    IN [of |-> hash.of, text |-> SubSeq(EncodeToString(hash.sum), 1, 20)]

\* ConfigBuilder.buildDownloadURL, ConfigBuilder.buildCallbackURL
buildDownloadURL(base, filePath) ==
    [base |-> TrimSuffix(IF base = <<>> THEN Localhost10099 ELSE base, Slash),
     endpoint |-> "download", path |-> QueryEscape(filePath)]
buildCallbackURL(base, filePath) ==
    [base |-> TrimSuffix(IF base = <<>> THEN Localhost10099 ELSE base, Slash),
     endpoint |-> "callback", path |-> QueryEscape(filePath)]

\* ConfigBuilder.normalizeLanguage
normalizeLanguage(lang) ==
    IF lang = <<>> THEN <<"e", "n">>
    ELSE LET l == ToLower(lang)
         IN IF HasPrefix(l, <<"z", "h">>) THEN <<"z", "h">>
            ELSE IF Len(l) >= 2 THEN SubSeq(l, 1, 2)
            ELSE l

\* the descriptor: document, documentType, editorConfig and, when signed, token
Descriptor(fileInfo, docKey, downloadURL, canEdit, type, callbackURL, lang, mode, id, name) ==
    [document |-> [fileType |-> fileInfo.Extension, key |-> docKey, title |-> fileInfo.Name,
                   url |-> downloadURL,
                   permissions |-> [edit |-> canEdit, download |-> TRUE, print |-> TRUE]],
     documentType |-> type,
     editorConfig |-> [callbackUrl |-> callbackURL, lang |-> lang, mode |-> mode,
                       user |-> [id |-> id, name |-> name]],
     token |-> NoToken]

NoFileInfo == [err |-> "nil", Name |-> "", Extension |-> <<>>, ModTime |-> 0]
NoDescriptor ==
    Descriptor(NoFileInfo, generateDocumentKey("", 0), buildDownloadURL(<<>>, ""), FALSE, "",
               buildCallbackURL(<<>>, ""), <<>>, "", "", "")

\* the claim map both builders sign
DescriptorClaims(config) ==
    [document |-> Obj(config.document), documentType |-> Str(config.documentType),
     editorConfig |-> Obj(config.editorConfig)]

\* ConfigBuilder.signConfig
signConfig(secret, config) == Sign(secret, DescriptorClaims(config))

\* ConfigBuilder.BuildConfig
BuildConfig(req) ==
    IF req.FileInfo = NoFileInfo THEN [err |-> "invalid", config |-> NoDescriptor]
    ELSE IF ~GetFormat(req.FileInfo.Extension).ok
    THEN [err |-> "unsupported", config |-> NoDescriptor]
    ELSE LET formatInfo == GetFormat(req.FileInfo.Extension).f
             canEdit == formatInfo.Editable
             mode == IF canEdit THEN "edit" ELSE "view"
             config == Descriptor(req.FileInfo,
                           generateDocumentKey(req.FilePath, req.FileInfo.ModTime),
                           buildDownloadURL(req.BaseURL, req.FilePath), canEdit,
                           formatInfo.Type, buildCallbackURL(req.BaseURL, req.FilePath),
                           normalizeLanguage(req.Lang), mode,
                           IF req.UserID = "" THEN "anonymous" ELSE req.UserID,
                           IF req.UserName = "" THEN "Anonymous User" ELSE req.UserName)
         IN [err |-> "nil",
             config |-> IF req.JWTSecret # ""
                        THEN [config EXCEPT !.token = signConfig(req.JWTSecret, config)]
                        ELSE config]

\* Server.getEffectiveBaseURL: the URL, and Server.baseURL after the call
getEffectiveBaseURL(cached, settings) ==
    IF cached # <<>> THEN [url |-> cached, cached |-> cached]
    ELSE IF settings.state = "ok" /\ settings.baseURL # <<>>
    THEN [url |-> settings.baseURL, cached |-> settings.baseURL]
    ELSE [url |-> Localhost10099, cached |-> cached]

\* Server.buildDownloadURL
ServerDownloadURL(cached, settings, filePath) ==
    [base |-> TrimSuffix(getEffectiveBaseURL(cached, settings).url, Slash),
     endpoint |-> "download", path |-> QueryEscape(filePath)]

\* Server.buildCallbackURL
ServerCallbackURL(cached, filePath) ==
    [base |-> IF cached = <<>> THEN Localhost8080 ELSE cached,
     endpoint |-> "callback", path |-> QueryEscape(filePath)]

\* Server.buildEditorConfig that ignores the view mode
buildEditorConfigNoView(req, cached, settings) ==
    IF ~GetFormat(req.FileInfo.Extension).ok
    THEN [err |-> "unsupported", config |-> NoDescriptor, cached |-> cached]
    ELSE LET formatInfo == GetFormat(req.FileInfo.Extension).f
             canEdit == formatInfo.Editable
             mode == IF canEdit THEN "edit" ELSE "view"
             cached2 == getEffectiveBaseURL(cached, settings).cached
             config == Descriptor(req.FileInfo,
                           generateDocumentKey(req.FilePath, req.FileInfo.ModTime),
                           ServerDownloadURL(cached, settings, req.FilePath), canEdit,
                           formatInfo.Type, ServerCallbackURL(cached2, req.FilePath),
                           req.Lang, mode, req.UserID, req.UserName)
         IN [err |-> "nil", cached |-> cached2,
             config |-> IF req.JWTSecret # ""
                        THEN [config EXCEPT
                                !.token = Sign(req.JWTSecret, DescriptorClaims(config))]
                        ELSE config]

\* Server.buildEditorConfig that signs whether or not a secret is configured
buildEditorConfigSigned(req, cached, settings) ==
    IF ~GetFormat(req.FileInfo.Extension).ok
    THEN [err |-> "unsupported", config |-> NoDescriptor, cached |-> cached]
    ELSE LET formatInfo == GetFormat(req.FileInfo.Extension).f
             canEdit == formatInfo.Editable /\ ~req.ViewMode
             mode == IF canEdit THEN "edit" ELSE "view"
             cached2 == getEffectiveBaseURL(cached, settings).cached
             config == Descriptor(req.FileInfo,
                           generateDocumentKey(req.FilePath, req.FileInfo.ModTime),
                           ServerDownloadURL(cached, settings, req.FilePath), canEdit,
                           formatInfo.Type, ServerCallbackURL(cached2, req.FilePath),
                           req.Lang, mode, req.UserID, req.UserName)
         IN [err |-> "nil", cached |-> cached2,
             config |-> [config EXCEPT
                           !.token = Sign(req.JWTSecret, DescriptorClaims(config))]]

\* Server.buildEditorConfig: the descriptor, and Server.baseURL after the call
buildEditorConfig(req, cached, settings) ==
    IF ~GetFormat(req.FileInfo.Extension).ok
    THEN [err |-> "unsupported", config |-> NoDescriptor, cached |-> cached]
    ELSE LET formatInfo == GetFormat(req.FileInfo.Extension).f
             canEdit == formatInfo.Editable /\ ~req.ViewMode
             mode == IF canEdit THEN "edit" ELSE "view"
             cached2 == getEffectiveBaseURL(cached, settings).cached
             config == Descriptor(req.FileInfo,
                           generateDocumentKey(req.FilePath, req.FileInfo.ModTime),
                           ServerDownloadURL(cached, settings, req.FilePath), canEdit,
                           formatInfo.Type, ServerCallbackURL(cached2, req.FilePath),
                           req.Lang, mode, req.UserID, req.UserName)
         IN [err |-> "nil", cached |-> cached2,
             config |-> IF req.JWTSecret # ""
                        THEN [config EXCEPT
                                !.token = Sign(req.JWTSecret, DescriptorClaims(config))]
                        ELSE config]

\* what a descriptor request may carry
Langs == {<<>>, <<"Z", "H", "-", "C", "N">>, <<"E", "N">>, <<"e">>}
Modes == {"", "view", "edit"}
UserIDs == {"", "u"}
UserNames == {"", "n"}
\* extensions as Service.GetFileInfo reports them (lower case, no dot)
StoredExtensions == {Docx, Xlsx, <<"d", "o", "c">>, <<"p", "d", "f">>, <<"z", "i", "p">>, <<>>}
\* extensions a direct caller of BuildConfig may pass
CallerExtensions == StoredExtensions \cup {<<"D", "O", "C", "X">>, <<".", "d", "o", "c">>}
FileInfosOf(exts) ==
    [err : {"nil"}, Name : {"n"}, Extension : exts, ModTime : {1}]
FileErrors ==
    {[NoFileInfo EXCEPT !.err = e] : e \in {"FileNotFound", "InvalidPath", "PermissionDenied"}}
BaseURLs == {<<>>, <<"b">>, <<"b", "/">>}
ConfigSecrets == {"", "s1"}

\* op: the entry point; secret and view: the secret in force and whether view
\* mode was asked for; lang: the language asked for; out: error, redirect or
\* descriptor
\* hops: the redirects the browser followed to get to this page
NoEd ==
    [op |-> "none", path |-> "", ext |-> <<>>, secret |-> "", view |-> FALSE,
     lang |-> <<>>, out |-> "none", config |-> NoDescriptor, hops |-> 0]

\* Server.handleEditorPage, for a GET /editor whose query is drawn from the
\* given sets and whose file Service.GetFileInfo reports as one of fileInfos
handleEditorPage(hops, filePaths, modes, userIDs, userNames, langs, fileInfos) ==
    /\ \E path \in filePaths, mode \in modes, userID \in userIDs, userName \in userNames,
       lang \in langs, fileInfo \in fileInfos :
        LET e0 == [NoEd EXCEPT !.op = "editor", !.path = path, !.view = (mode = "view"),
                               !.ext = fileInfo.Extension, !.secret = settingsFile.secret,
                               !.lang = lang, !.hops = hops]
            req == [FilePath |-> path, FileInfo |-> fileInfo,
                    UserID |-> IF userID = "" THEN "fnos_user" ELSE userID,
                    UserName |-> IF userName = "" THEN "fnOS user" ELSE userName,
                    Lang |-> IF lang = <<>> THEN <<"z", "h">> ELSE lang,
                    BaseURL |-> baseURL, JWTSecret |-> settingsFile.secret,
                    ViewMode |-> (mode = "view")]
            built == buildEditorConfig(req, baseURL, settingsFile)
            answer(kind) == /\ ed' = [e0 EXCEPT !.out = kind]
                            /\ baseURL' = baseURL
        IN IF path = "" THEN answer("error")
           ELSE IF settingsFile.state # "ok" THEN answer("error")
           ELSE IF settingsFile.serverURL = <<>> THEN answer("error")
           ELSE IF fileInfo.err # "nil" THEN answer("error")
           ELSE IF IsConvertible(fileInfo.Extension) /\ mode # "view" THEN answer("redirect")
           ELSE IF built.err # "nil" THEN answer("error")
           ELSE /\ ed' = [e0 EXCEPT !.out = "descriptor", !.config = built.config]
                /\ baseURL' = built.cached

\* a browser asks for the editor page
EditorPage ==
    /\ ed.op = "none"
    /\ handleEditorPage(0, {"", "f"}, Modes, UserIDs, UserNames, Langs,
                        FileInfosOf(StoredExtensions) \cup FileErrors)

\* a caller of ConfigBuilder.BuildConfig
EditorBuildConfig ==
    /\ ed.op = "none"
    /\ \E path \in {"", "f"}, userID \in UserIDs, userName \in UserNames, lang \in Langs,
       fileInfo \in FileInfosOf(CallerExtensions) \cup {NoFileInfo},
       base \in BaseURLs, secret \in ConfigSecrets :
        LET req == [FilePath |-> path, FileInfo |-> fileInfo, UserID |-> userID,
                    UserName |-> userName, Lang |-> lang, BaseURL |-> base,
                    JWTSecret |-> secret]
            built == BuildConfig(req)
        IN /\ ed' = [NoEd EXCEPT !.op = "BuildConfig", !.path = path, !.lang = lang,
                                 !.ext = fileInfo.Extension, !.secret = secret,
                                 !.out = IF built.err = "nil" THEN "descriptor" ELSE "error",
                                 !.config = built.config]
           /\ baseURL' = baseURL

\* Server.handleSaveSettings
SaveSettings ==
    /\ ed.op = "none"
    /\ \E formServer \in {<<>>, <<"d">>, <<"d", "/">>}, secret \in ConfigSecrets,
       formBase \in BaseURLs \cup {<<"/">>}, saved \in BOOLEAN :
        LET serverURL == TrimSuffix(formServer, Slash)
            base == TrimSuffix(formBase, Slash)
        IN IF serverURL = <<>> \/ base = <<>> \/ ~saved
           THEN UNCHANGED <<settingsFile, baseURL>>
           ELSE /\ settingsFile' = [state |-> "ok", secret |-> secret,
                                    serverURL |-> serverURL, baseURL |-> base]
                /\ baseURL' = base

\* the page is rendered, the caller has its descriptor
DescriptorReturn ==
    /\ ed.op # "none"
    /\ ed' = NoEd
    /\ UNCHANGED <<settingsFile, baseURL>>

\* ConfigBuilder.GetDocumentKey: a caller asks for a key; dk keeps every
\* call made so far with the key it returned
KeyPaths == {"", "f", "g"}
GetDocumentKey ==
    /\ \E filePath \in KeyPaths, modTime \in 0..MaxTime :
         dk' = dk \cup {[path |-> filePath, modTime |-> modTime,
                         key |-> generateDocumentKey(filePath, modTime)]}
    /\ UNCHANGED <<fsVars, settingsFile, now, cb, jw, baseURL, ed, cv, gs, px, cg>>

\* spellings of the path query parameter of the editor page: the store holds
\* /v/a and /v/b
KeySpellings ==
    {<<"v", "/", "a">>, <<"/", "v", "/", "a">>, <<"/", "v", "/", "b">>, <<"v", "/", "b">>}

\* Server.handleEditorPage down to the key of the descriptor: GetFileInfo
\* resolves the path of the query, buildEditorConfig gives the key for the
\* path as the query spells it and the modification time of the file found
EditorKey ==
    /\ \E filePath \in KeySpellings, modTime \in 0..1 :
         LET r == resolvePath(basePath, filePath)
         IN /\ r.ok
            /\ dk' = dk \cup {[path |-> filePath, file |-> r.path, modTime |-> modTime,
                               key |-> generateDocumentKey(filePath, modTime)]}
    /\ UNCHANGED <<fsVars, settingsFile, now, cb, jw, baseURL, ed, cv, gs, px, cg>>

\* --------------------------------------------------------- secret generation
\* crypto/rand as an ideal source: the k-th successful read returns 16 bytes
\* that no other read returns
RandomBytes(k) == [i \in 1..16 |-> (k * 97 + i * 29) % 256]

\* "fallback-secret-key-do-not-use!"
FallbackSecret ==
    <<"f", "a", "l", "l", "b", "a", "c", "k", "-", "s", "e", "c", "r", "e", "t", "-",
      "k", "e", "y", "-", "d", "o", "-", "n", "o", "t", "-", "u", "s", "e", "!">>

\* Manager.GenerateSecret, given whether rand.Read succeeds and what it read
GenerateSecret(ok, bytes) == IF ~ok THEN FallbackSecret ELSE EncodeToString(bytes)

\* Server.handleGenerateKey: one more secret is handed out
GenerateKey ==
    /\ Len(gs) < MaxSecrets
    /\ \E ok \in BOOLEAN :
         LET reads == Cardinality({i \in 1..Len(gs) : gs[i] # FallbackSecret})
         IN gs' = Append(gs, GenerateSecret(ok, RandomBytes(reads + 1)))
    /\ UNCHANGED <<fsVars, settingsFile, now, cb, jw, baseURL, ed, cv, dk, px, cg>>

\* -------------------------------------------------------- format conversion
\* GetConvertTarget that answers with the extension it was asked about
GetConvertTargetSelf(extension) == ToLower(TrimPrefix(extension, Dot))

\* Manager.GetConvertTarget
GetConvertTarget(extension) ==
    IF ~GetFormat(extension).ok \/ ~GetFormat(extension).f.Convertible THEN <<>>
    ELSE GetFormat(extension).f.ConvertTarget

\* Server.handleConvertPage
handleConvertPage(hops, filePaths, fileInfos) ==
    /\ \E path \in filePaths, fileInfo \in fileInfos :
        LET e0 == [NoEd EXCEPT !.op = "convert", !.path = path,
                               !.ext = fileInfo.Extension, !.hops = hops]
        IN ed' = IF path = "" THEN [e0 EXCEPT !.out = "error"]
                 ELSE IF fileInfo.err # "nil" THEN [e0 EXCEPT !.out = "error"]
                 ELSE IF GetConvertTarget(fileInfo.Extension) = <<>>
                 THEN [e0 EXCEPT !.out = "redirect"]
                 ELSE [e0 EXCEPT !.out = "page"]
    /\ baseURL' = baseURL

\* redirects a browser follows before it gives up
MaxHops == 2
\* every extension the registry knows, one it does not know, and none
PageExtensions == DOMAIN formats \cup {<<"z", "i", "p">>, <<>>}

\* a browser asks for the editor page or the convert page of any file
PageEditor ==
    /\ ed.op = "none"
    /\ handleEditorPage(0, {"", "f"}, Modes, {""}, {""}, {<<>>},
                        FileInfosOf(PageExtensions) \cup FileErrors)
PageConvert ==
    /\ ed.op = "none"
    /\ handleConvertPage(0, {"", "f"}, FileInfosOf(PageExtensions) \cup FileErrors)

\* the browser follows http.Redirect(w, r, "/convert?path=...", 302): the
\* query has the path only, the file is the one the first page looked at
FollowToConvert ==
    /\ ed.op = "editor" /\ ed.out = "redirect"
    /\ ed.hops < MaxHops
    /\ handleConvertPage(ed.hops + 1, {ed.path}, FileInfosOf({ed.ext}) \cup FileErrors)

\* the browser follows http.Redirect(w, r, "/editor?path=...", 302)
FollowToEditor ==
    /\ ed.op = "convert" /\ ed.out = "redirect"
    /\ ed.hops < MaxHops
    /\ handleEditorPage(ed.hops + 1, {ed.path}, {""}, {""}, {""}, {<<>>},
                        FileInfosOf({ed.ext}) \cup FileErrors)

\* filepath.Base
RECURSIVE Base(_)
Base(path) ==
    IF path = <<>> THEN Dot
    ELSE IF path[Len(path)] = "/"
    THEN IF Len(path) = 1 THEN Root ELSE Base(SubSeq(path, 1, Len(path) - 1))
    ELSE LET seps == {i \in 1..Len(path) : path[i] = "/"}
         IN IF seps = {} THEN path
            ELSE SubSeq(path, (CHOOSE i \in seps : \A j \in seps : j <= i) + 1, Len(path))

\* filepath.Ext
Ext(path) ==
    LET dots == {i \in 1..Len(path) :
                    path[i] = "." /\ \A j \in i..Len(path) : path[j] # "/"}
    IN IF dots = {} THEN <<>>
       ELSE SubSeq(path, CHOOSE i \in dots : \A j \in dots : j <= i, Len(path))

\* what Service.GetFileInfo hands the conversion handler
NoSource == [err |-> "nil", Name |-> <<>>, Extension |-> <<>>]
StatSource(path, denied) ==
    LET r == resolvePath(basePath, path)
    IN IF ~r.ok THEN [NoSource EXCEPT !.err = "InvalidPath"]
       ELSE IF r.path \notin DOMAIN dir /\ r.path \notin dirs
       THEN [NoSource EXCEPT !.err = "FileNotFound"]
       ELSE IF denied THEN [NoSource EXCEPT !.err = "PermissionDenied"]
       ELSE IF r.path \in dirs THEN [NoSource EXCEPT !.err = "InvalidPath"]
       ELSE LET ext == Ext(Base(r.path))
            IN [err |-> "nil", Name |-> Base(r.path),
                Extension |-> IF ext # <<>> THEN ToLower(Tail(ext)) ELSE <<>>]

\* buildTargetPath that appends the target format to the whole base name
buildTargetPathAppend(sourcePath, targetFormat) ==
    Join(Dir(sourcePath), Base(sourcePath) \o Dot \o targetFormat)

\* Server.buildTargetPath
buildTargetPath(sourcePath, targetFormat) ==
    LET base == Base(sourcePath)
        name == TrimSuffix(base, Ext(base))
    IN Join(Dir(sourcePath), name \o Dot \o targetFormat)

\* what the remote processor may answer to POST /ConvertService.ashx: the
\* request is not delivered, the body cannot be read, or an answer arrives
\* with its HTTP status and, when the body decodes, a ConvertResponse
NoReply ==
    [kind |-> "none", status |-> 0, parses |-> FALSE, Error |-> 0, EndConvert |-> FALSE,
     FileURL |-> ""]
ConvertReplies ==
    {[NoReply EXCEPT !.kind = k] : k \in {"unsent", "unread"}}
    \cup {[NoReply EXCEPT !.kind = "answered", !.status = 200]}
    \cup [kind : {"answered"}, status : {200, 500}, parses : {TRUE}, Error : {0, -1},
          EndConvert : BOOLEAN, FileURL : {"", "u"}]

\* callConversionAPI without the endConvert check
callConversionAPIAsync(reply) ==
    IF reply.kind = "unsent" THEN [err |-> "send", url |-> ""]
    ELSE IF reply.kind = "unread" THEN [err |-> "read", url |-> ""]
    ELSE IF reply.status # 200 THEN [err |-> "status", url |-> ""]
    ELSE IF ~reply.parses THEN [err |-> "parse", url |-> ""]
    ELSE IF reply.Error # 0 THEN [err |-> "code", url |-> ""]
    ELSE IF reply.FileURL = "" THEN [err |-> "nourl", url |-> ""]
    ELSE [err |-> "nil", url |-> reply.FileURL]

\* Server.callConversionAPI, from the remote answer on
callConversionAPI(reply) ==
    IF reply.kind = "unsent" THEN [err |-> "send", url |-> ""]
    ELSE IF reply.kind = "unread" THEN [err |-> "read", url |-> ""]
    ELSE IF reply.status # 200 THEN [err |-> "status", url |-> ""]
    ELSE IF ~reply.parses THEN [err |-> "parse", url |-> ""]
    ELSE IF reply.Error # 0 THEN [err |-> "code", url |-> ""]
    ELSE IF ~reply.EndConvert THEN [err |-> "incomplete", url |-> ""]
    ELSE IF reply.FileURL = "" THEN [err |-> "nourl", url |-> ""]
    ELSE [err |-> "nil", url |-> reply.FileURL]

\* pc: where the handler is; info: what GetFileInfo returned; reply: the
\* remote answer; fetched: the result URL was requested; got: what the
\* download returned; targetPath: the handler's local; status: the HTTP
\* status answered; reported: the path the answer names
IdleConvert ==
    [pc |-> "idle", path |-> <<>>, info |-> NoSource, target |-> <<>>, reply |-> NoReply,
     fetched |-> FALSE, got |-> NoDownload, targetPath |-> <<>>, status |-> 0,
     via |-> "none", reported |-> <<>>]

\* handleConvert, through the download and the start of SaveFile
HandleConvert(p) ==
    /\ p \in active
    /\ cv[p].pc = "idle"
    /\ sv[p].pc = "idle"
    /\ CanStart
    /\ \E filePath \in paths \cup {<<>>}, denied \in BOOLEAN :
       \E fileInfo \in {StatSource(filePath, denied)} :
       \E targetFormat \in {GetConvertTarget(fileInfo.Extension)} :
         LET c0 == [IdleConvert EXCEPT !.path = filePath, !.info = fileInfo]
             c1 == [c0 EXCEPT !.target = targetFormat]
             answer(c, code) == /\ cv' = [cv EXCEPT ![p] = [c EXCEPT !.pc = "done",
                                                                   !.status = code]]
                                /\ UNCHANGED <<dirs, dir, files, want, sv>>
         IN IF filePath = <<>> THEN answer(c0, 400)
            ELSE IF fileInfo.err = "FileNotFound" THEN answer(c0, 404)
            ELSE IF fileInfo.err # "nil" THEN answer(c0, 500)
            ELSE IF ~IsConvertible(fileInfo.Extension) THEN answer(c0, 400)
            ELSE IF targetFormat = <<>> THEN answer(c1, 400)
            ELSE IF settingsFile.state = "missing" THEN answer(c1, 400)
            ELSE IF settingsFile.state # "ok" THEN answer(c1, 500)
            ELSE IF settingsFile.serverURL = <<>> THEN answer(c1, 400)
            ELSE \E reply \in ConvertReplies :
                   LET c2 == [c1 EXCEPT !.reply = reply]
                       c3 == [c2 EXCEPT !.fetched = TRUE]
                   IN IF callConversionAPI(reply).err # "nil" THEN answer(c2, 500)
                      ELSE \E d \in Downloads :
                             IF d.kind # "ok" THEN answer([c3 EXCEPT !.got = d], 500)
                             ELSE \E targetPath \in {buildTargetPath(filePath, targetFormat)} :
                                     /\ SaveBegin(p, targetPath, d.body)
                                     /\ cv' = [cv EXCEPT ![p] =
                                                  [c3 EXCEPT !.pc = "saving", !.got = d,
                                                             !.targetPath = targetPath]]
    /\ api' = NoCall
    /\ UNCHANGED <<basePath, maxFileSize, calls, lastRename, active, rd, paths,
                   settingsFile, now, cb, jw, baseURL, ed, dk, gs, px, cg>>

\* SaveFile returns and handleConvert answers: HX-Redirect or JSON
ConvertRespond(p) ==
    /\ p \in active
    /\ cv[p].pc = "saving"
    /\ sv[p].pc = "ret"
    /\ \E hx \in BOOLEAN :
         cv' = [cv EXCEPT ![p] =
                   IF sv[p].err # "nil" THEN [@ EXCEPT !.pc = "done", !.status = 500]
                   ELSE [@ EXCEPT !.pc = "done", !.status = 200,
                                  !.via = IF hx THEN "redirect" ELSE "json",
                                  !.reported = cv[p].targetPath]]
    /\ api' = [op |-> "SaveFile", err |-> sv[p].err, full |-> sv[p].fullPath,
               data |-> <<>>, whole |-> <<>>]
    /\ sv' = [sv EXCEPT ![p] = [IdleSave EXCEPT !.fault = sv[p].fault]]
    /\ UNCHANGED <<basePath, maxFileSize, calls, dirs, dir, files, want, lastRename, active, rd,
                   paths, settingsFile, now, cb, jw, baseURL, ed, dk, gs, px, cg>>

\* the response is on the wire; the goroutine is free for the next request
ConvertReturn(p) ==
    /\ p \in active
    /\ cv[p].pc = "done"
    /\ cv' = [cv EXCEPT ![p] = IdleConvert]
    /\ sv' = [sv EXCEPT ![p] = IdleSave]
    /\ UNCHANGED <<basePath, maxFileSize, calls, dirs, dir, files, want, lastRename, active, rd,
                   api, paths, settingsFile, now, cb, jw, baseURL, ed, dk, gs, px, cg>>

\* ------------------------------------------------------------ reverse proxy
\* Header values are sequences of words: "203.0.113.50, 172.16.0.1" is
\* <<"203.0.113.50", ", ", "172.16.0.1">>, and "" is <<>>.  An address is a
\* sequence in which ":", "[" and "]" stand alone: "[::1]:5" is
\* <<"[", ":", ":", "1", "]", ":", "5">>.
WebSocketHeaders ==
    {"Upgrade", "Connection", "Sec-WebSocket-Key", "Sec-WebSocket-Version",
     "Sec-WebSocket-Protocol", "Sec-WebSocket-Extensions"}
HeaderNames ==
    {"X-Forwarded-For", "X-Forwarded-Host", "X-Forwarded-Proto", "X-Kiro-Forwarded-For"}
    \cup WebSocketHeaders

\* a key that is not in the http.Header map
NoHeader == [has |-> FALSE, v |-> <<>>]
NoHeaders == [n \in HeaderNames |-> NoHeader]

\* http.Header.Get, Set, Del, and the assignment h[key] = nil
HeaderGet(h, key) == IF h[key].v = <<>> THEN <<>> ELSE h[key].v[1]
HeaderSet(h, key, value) == [h EXCEPT ![key] = [has |-> TRUE, v |-> <<value>>]]
HeaderDel(h, key) == [h EXCEPT ![key] = NoHeader]
HeaderNil(h, key) == [h EXCEPT ![key] = [has |-> TRUE, v |-> <<>>]]

\* the header lines written to the wire for a key
HeaderLines(h, key) == h[key].v

\* strings.ToLower and textproto.CanonicalMIMEHeaderKey, a word at a time
LowerWord(w) ==
    CASE w = "Upgrade" -> "upgrade"
      [] w = "WebSocket" -> "websocket"
      [] OTHER -> w
CanonicalMIMEHeaderKey(w) ==
    CASE w = "upgrade" -> "Upgrade"
      [] w = "keep-alive" -> "Keep-Alive"
      [] OTHER -> w

\* strings.Contains(strings.ToLower(value), word)
ContainsFold(value, word) == \E i \in DOMAIN value : LowerWord(value[i]) = word

\* the elements of a comma-separated header value
ListElements(value) == {value[i] : i \in DOMAIN value} \ {", "}

\* strings.Join(values, ", ")
RECURSIVE JoinComma(_)
JoinComma(values) ==
    IF values = <<>> THEN <<>>
    ELSE IF Len(values) = 1 THEN values[1]
    ELSE values[1] \o <<", ">> \o JoinComma(Tail(values))

\* strings.LastIndex and strings.Index of one character, counted from 1;
\* 0 when it does not occur
LastIndex(s, c) ==
    IF \E i \in DOMAIN s : s[i] = c
    THEN CHOOSE i \in DOMAIN s : s[i] = c /\ \A j \in DOMAIN s : s[j] = c => j <= i
    ELSE 0
FirstIndex(s, c) ==
    IF \E i \in DOMAIN s : s[i] = c
    THEN CHOOSE i \in DOMAIN s : s[i] = c /\ \A j \in DOMAIN s : s[j] = c => j >= i
    ELSE 0

\* strings.Trim(s, "[]")
RECURSIVE TrimBrackets(_)
TrimBrackets(s) ==
    IF s = <<>> THEN s
    ELSE IF s[1] \in {"[", "]"} THEN TrimBrackets(Tail(s))
    ELSE IF s[Len(s)] \in {"[", "]"} THEN TrimBrackets(SubSeq(s, 1, Len(s) - 1))
    ELSE s

\* GetOriginalRemoteAddr: the address CaptureOriginalRemoteAddr stored in the
\* request context before any middleware rewrote RemoteAddr, and RemoteAddr
\* itself when nothing was captured
GetOriginalRemoteAddr(req) ==
    IF req.Captured # <<>> THEN req.Captured ELSE req.RemoteAddr

\* getClientIP: the original address without its port
getClientIP(req) ==
    LET remoteAddr == GetOriginalRemoteAddr(req)
    IN IF remoteAddr = <<>> THEN <<>>
       ELSE IF remoteAddr[1] = "["
       THEN \* LastIndex(remoteAddr, "]:")
            LET ends == {i \in 1..(Len(remoteAddr) - 1) :
                           remoteAddr[i] = "]" /\ remoteAddr[i + 1] = ":"}
            IN IF ends # {}
               THEN LET idx == CHOOSE i \in ends : \A j \in ends : j <= i
                    IN SubSeq(remoteAddr, 2, idx - 1)
               ELSE TrimBrackets(remoteAddr)
       ELSE LET idx == LastIndex(remoteAddr, ":")
            IN IF idx # 0 THEN SubSeq(remoteAddr, 1, idx - 1) ELSE remoteAddr

\* getRequestProto: an X-Forwarded-Proto header first, then the TLS state
getRequestProto(req) ==
    LET proto == HeaderGet(req.Header, "X-Forwarded-Proto")
    IN IF proto # <<>> THEN proto
       ELSE IF req.TLS THEN <<"https">>
       ELSE <<"http">>

\* isWebSocketUpgrade
isWebSocketUpgrade(h) ==
    /\ ContainsFold(HeaderGet(h, "Upgrade"), "websocket")
    /\ ContainsFold(HeaderGet(h, "Connection"), "upgrade")

\* preserveWebSocketHeaders: each header of the handshake that has a value is
\* set again to its first value
preserveWebSocketHeaders(h) ==
    IF ~isWebSocketUpgrade(h) THEN h
    ELSE LET again(g, key) == IF HeaderGet(g, key) # <<>>
                              THEN HeaderSet(g, key, HeaderGet(g, key)) ELSE g
         IN again(again(again(again(again(again(h, "Upgrade"), "Connection"),
                                        "Sec-WebSocket-Key"), "Sec-WebSocket-Version"),
                        "Sec-WebSocket-Protocol"), "Sec-WebSocket-Extensions")

\* url.Parse of the configured Document Server URL: its host, and its path,
\* which starts at the first "/" after the host
TargetHost == <<"d">>
TargetPath ==
    LET i == FirstIndex(settingsFile.serverURL, "/")
    IN IF i = 0 THEN <<>> ELSE SubSeq(settingsFile.serverURL, i, Len(settingsFile.serverURL))

\* the mount point of the proxy
DocSvr == <<"/", "doc-svr">>

\* httputil's singleJoiningSlash: the Director NewSingleHostReverseProxy
\* makes puts the target's path before the request's
singleJoiningSlash(a, b) ==
    LET aslash == a # <<>> /\ a[Len(a)] = "/"
        bslash == b # <<>> /\ b[1] = "/"
    IN IF aslash /\ bslash THEN a \o Tail(b)
       ELSE IF ~aslash /\ ~bslash THEN a \o <<"/">> \o b
       ELSE a \o b

\* the Director's path: joined to the target's, then without a leading
\* /doc-svr, and "/" when nothing is left
DirectorPath(path) ==
    LET joined == singleJoiningSlash(TargetPath, path)
        stripped == TrimPrefix(joined, DocSvr)
    IN IF stripped = <<>> THEN <<"/">> ELSE stripped

\* the Director createDocServerProxy installs, applied to the outbound copy
\* of the request
Director(req) ==
    LET originalHost == req.Host
        originalProto == getRequestProto(req)
        originalRemoteAddr == getClientIP(req)
        existingXForwardedFor == HeaderGet(req.Header, "X-Forwarded-For")
        h1 == IF originalHost # <<>>
              THEN HeaderSet(req.Header, "X-Forwarded-Host", originalHost)
              ELSE req.Header
        h2 == IF originalProto # <<>>
              THEN HeaderSet(h1, "X-Forwarded-Proto", originalProto)
              ELSE h1
        xffValue == IF existingXForwardedFor # <<>>
                    THEN existingXForwardedFor \o <<", ">> \o originalRemoteAddr
                    ELSE originalRemoteAddr
        h3 == IF originalRemoteAddr # <<>>
              THEN HeaderNil(HeaderSet(h2, "X-Kiro-Forwarded-For", xffValue),
                             "X-Forwarded-For")
              ELSE h2
    IN [req EXCEPT !.Host = TargetHost, !.Path = DirectorPath(req.Path),
                   !.Header = preserveWebSocketHeaders(h3)]

\* net.SplitHostPort
SplitHostPort(hostport) ==
    LET i == LastIndex(hostport, ":")
        bad == [ok |-> FALSE, host |-> <<>>]
    IN IF i = 0 THEN bad
       ELSE IF hostport[1] = "["
       THEN LET end == FirstIndex(hostport, "]")
            IN IF end = 0 \/ end + 1 # i THEN bad
               ELSE [ok |-> TRUE, host |-> SubSeq(hostport, 2, end - 1)]
       ELSE LET host == SubSeq(hostport, 1, i - 1)
            IN IF \E j \in DOMAIN host : host[j] \in {":", "[", "]"} THEN bad
               ELSE [ok |-> TRUE, host |-> host]

\* httputil's upgradeType and removeHopByHopHeaders
upgradeType(h) ==
    IF \E i \in DOMAIN h["Connection"].v :
          \E w \in ListElements(h["Connection"].v[i]) : LowerWord(w) = "upgrade"
    THEN HeaderGet(h, "Upgrade")
    ELSE <<>>
hopHeaders == {"Connection", "Upgrade"}
removeHopByHopHeaders(h) ==
    LET listed == UNION {{CanonicalMIMEHeaderKey(w) : w \in ListElements(h["Connection"].v[i])} :
                           i \in DOMAIN h["Connection"].v}
    IN [key \in HeaderNames |-> IF key \in listed \cup hopHeaders THEN NoHeader ELSE h[key]]

\* what ReverseProxy.ServeHTTP does to the outbound request after the
\* Director returned and before it hands the request to the transport: the
\* hop-by-hop headers go, the upgrade headers come back, and X-Forwarded-For
\* is extended unless the key is present with a nil value
ServeHTTP(req, outreq) ==
    LET reqUpType == upgradeType(outreq.Header)
        h1 == removeHopByHopHeaders(outreq.Header)
        h2 == IF reqUpType # <<>>
              THEN HeaderSet(HeaderSet(h1, "Connection", <<"Upgrade">>), "Upgrade", reqUpType)
              ELSE h1
        split == SplitHostPort(req.RemoteAddr)
        prior == h2["X-Forwarded-For"]
        omit == prior.has /\ prior.v = <<>>
        clientIP == IF prior.v # <<>>
                    THEN JoinComma(prior.v) \o <<", ">> \o split.host
                    ELSE split.host
        h3 == IF split.ok /\ ~omit THEN HeaderSet(h2, "X-Forwarded-For", clientIP) ELSE h2
    IN [outreq EXCEPT !.Header = h3]

\* xffPreservingTransport.RoundTrip, up to the call of the base transport
RoundTrip(req) ==
    LET xff == HeaderGet(req.Header, "X-Kiro-Forwarded-For")
    IN IF xff # <<>>
       THEN [req EXCEPT !.Header = HeaderDel(HeaderSet(req.Header, "X-Forwarded-For", xff),
                                             "X-Kiro-Forwarded-For")]
       ELSE req

\* the inbound requests: addresses as net/http and CGI give them (host:port),
\* and without a port as a middleware leaves them
ProxyAddrs == {<<"1", ":", "5">>, <<"[", ":", ":", "1", "]", ":", "5">>, <<"1">>}
RewrittenAddr == <<"9">>
ProxyAddrPairs ==
    {[Captured |-> <<>>, RemoteAddr |-> a] : a \in ProxyAddrs \cup {<<>>}}
    \cup UNION {{[Captured |-> a, RemoteAddr |-> b] : b \in {a, RewrittenAddr}} :
                  a \in ProxyAddrs}
OneLine(value) == [has |-> TRUE, v |-> <<value>>]
TwoLines(first, second) == [has |-> TRUE, v |-> <<first, second>>]
ProxyHeaders ==
    {[key \in HeaderNames |->
        CASE key = "X-Forwarded-For" -> for
          [] key = "X-Forwarded-Host" -> host
          [] key = "X-Forwarded-Proto" -> proto
          [] key = "X-Kiro-Forwarded-For" -> private
          [] key = "Upgrade" -> upgrade
          [] key = "Connection" -> connection
          [] OTHER -> NoHeader] :
       for \in {NoHeader, OneLine(<<"c1">>), TwoLines(<<"c1">>, <<"c2">>)},
       host \in {NoHeader, OneLine(<<"up">>)},
       proto \in {NoHeader, OneLine(<<"https">>), OneLine(<<"http">>)},
       private \in {NoHeader, OneLine(<<"evil">>)},
       upgrade \in {NoHeader, OneLine(<<"websocket">>)},
       connection \in {NoHeader} \cup {OneLine(<<w>>) :
           w \in {"keep-alive", "Upgrade", "X-Forwarded-For", "X-Forwarded-Host",
                  "X-Forwarded-Proto", "X-Kiro-Forwarded-For"}}}
ProxyRequests ==
    {[Host |-> host, TLS |-> tls, Captured |-> a.Captured, RemoteAddr |-> a.RemoteAddr,
      Path |-> DocSvr \o <<"/", "x">>, Header |-> h] :
       host \in {<<>>, <<"h">>}, tls \in BOOLEAN, a \in ProxyAddrPairs, h \in ProxyHeaders}

\* requests of a browser that loads pages and opens sockets under the mount
\* point: the paths, the Connection and Upgrade headers browsers send, and
\* the handshake headers, on one line each or on two
RewritePaths ==
    {DocSvr, DocSvr \o <<"/">>, DocSvr \o <<"/", "x">>, DocSvr \o <<"/", "x", "/", "y">>}
Handshakes ==
    LET none == [key \in {"Sec-WebSocket-Key", "Sec-WebSocket-Version", "Sec-WebSocket-Protocol",
                          "Sec-WebSocket-Extensions"} |-> NoHeader]
        bare == [none EXCEPT !["Sec-WebSocket-Key"] = OneLine(<<"k">>),
                             !["Sec-WebSocket-Version"] = OneLine(<<"13">>)]
    IN {none, bare,
        [bare EXCEPT !["Sec-WebSocket-Protocol"] = OneLine(<<"p1">>),
                     !["Sec-WebSocket-Extensions"] = OneLine(<<"e1">>)],
        [bare EXCEPT !["Sec-WebSocket-Protocol"] = TwoLines(<<"p1">>, <<"p2">>),
                     !["Sec-WebSocket-Extensions"] = TwoLines(<<"e1">>, <<"e2">>)]}
RewriteHeaders ==
    {[key \in HeaderNames |->
        CASE key = "Upgrade" -> upgrade
          [] key = "Connection" -> connection
          [] key \in DOMAIN handshake -> handshake[key]
          [] OTHER -> NoHeader] :
       upgrade \in {NoHeader, OneLine(<<"websocket">>), OneLine(<<"WebSocket">>),
                    OneLine(<<"h2c">>)},
       connection \in {NoHeader, OneLine(<<"keep-alive">>), OneLine(<<"Upgrade">>),
                       OneLine(<<"upgrade">>), OneLine(<<"keep-alive", ", ", "Upgrade">>),
                       TwoLines(<<"keep-alive">>, <<"Upgrade">>)},
       handshake \in Handshakes}
RewriteRequests ==
    {[Host |-> <<"h">>, TLS |-> FALSE, Captured |-> <<>>, RemoteAddr |-> <<"1", ":", "5">>,
      Path |-> path, Header |-> h] : path \in RewritePaths, h \in RewriteHeaders}

NoProxyRequest ==
    [Host |-> <<>>, TLS |-> FALSE, Captured |-> <<>>, RemoteAddr |-> <<>>, Path |-> <<>>,
     Header |-> NoHeaders]
IdleProxy == [pc |-> "idle", req |-> NoProxyRequest, outreq |-> NoProxyRequest, status |-> 0]

\* Server.handleDocServerProxy up to the return of the Director: without a
\* Document Server URL the answer is 500, otherwise the request is copied
\* and directed
HandleDocServerProxy(requests) ==
    /\ px.pc = "idle"
    /\ \E req \in requests :
         IF settingsFile.state # "ok" \/ settingsFile.serverURL = <<>>
         THEN px' = [IdleProxy EXCEPT !.pc = "done", !.req = req,
                                      !.status = 500]
         ELSE px' = [IdleProxy EXCEPT !.pc = "directed", !.req = req,
                                      !.outreq = Director(req)]
    /\ UNCHANGED <<fsVars, settingsFile, now, cb, jw, baseURL, ed, cv, dk, gs, cg>>

\* ReverseProxy.ServeHTTP between the Director and the transport
ProxyForward ==
    /\ px.pc = "directed"
    /\ px' = [px EXCEPT !.pc = "forward", !.outreq = ServeHTTP(px.req, px.outreq)]
    /\ UNCHANGED <<fsVars, settingsFile, now, cb, jw, baseURL, ed, cv, dk, gs, cg>>

\* the transport sends the outbound request
ProxyRoundTrip ==
    /\ px.pc = "forward"
    /\ px' = [px EXCEPT !.pc = "sent", !.outreq = RoundTrip(px.outreq)]
    /\ UNCHANGED <<fsVars, settingsFile, now, cb, jw, baseURL, ed, cv, dk, gs, cg>>

\* the response is copied back, the handler returns
ProxyReturn ==
    /\ px.pc \in {"sent", "done"}
    /\ px' = IdleProxy
    /\ UNCHANGED <<fsVars, settingsFile, now, cb, jw, baseURL, ed, cv, dk, gs, cg>>

\* --------------------------------------------------------- CGI path recovery
\* A REQUEST_URI is a sequence of words; "go-index.cgi" is <<"go-", "index.cgi">>,
\* so that "index.cgi" occurs inside it as it does in the text.
cgiMarker == <<"go-", "index.cgi">>
indexCGIMarker == <<"index.cgi">>

\* strings.Index, counted from 1; 0 when substr does not occur
Index(str, substr) ==
    LET at == {i \in 1..(Len(str) - Len(substr) + 1) :
                 SubSeq(str, i, i + Len(substr) - 1) = substr}
    IN IF at = {} THEN 0 ELSE CHOOSE i \in at : \A j \in at : i <= j

\* extractPathFromRequestURI that returns the two sides of the "?" as they are
extractPathAsIs(uri) ==
    LET idx == Index(uri, cgiMarker)
        relPath == SubSeq(uri, idx + Len(cgiMarker), Len(uri))
        qIdx == Index(relPath, <<"?">>)
    IN IF idx = 0 THEN [path |-> <<"/">>, query |-> <<>>]
       ELSE IF qIdx # 0 THEN [path |-> SubSeq(relPath, 1, qIdx - 1),
                              query |-> SubSeq(relPath, qIdx + 1, Len(relPath))]
       ELSE [path |-> relPath, query |-> <<>>]

\* extractPathFromRequestURI
extractPathFromRequestURI(uri) ==
    LET idx == Index(uri, cgiMarker)
        relPath == SubSeq(uri, idx + Len(cgiMarker), Len(uri))
        qIdx == Index(relPath, <<"?">>)
        path == IF qIdx # 0 THEN SubSeq(relPath, 1, qIdx - 1) ELSE relPath
        query == IF qIdx # 0 THEN SubSeq(relPath, qIdx + 1, Len(relPath)) ELSE <<>>
    IN IF idx = 0 THEN [path |-> <<"/">>, query |-> <<>>]
       ELSE IF relPath = <<>> THEN [path |-> <<"/">>, query |-> <<>>]
       ELSE IF path = <<>> \/ path = <<"/">> THEN [path |-> <<"/">>, query |-> query]
       ELSE [path |-> path, query |-> query]

\* extractCGIPrefix
extractCGIPrefix(requestURI) ==
    LET qIdx == Index(requestURI, <<"?">>)
        uri == IF qIdx # 0 THEN SubSeq(requestURI, 1, qIdx - 1) ELSE requestURI
    IN IF Index(uri, cgiMarker) # 0
       THEN SubSeq(uri, 1, Index(uri, cgiMarker) + Len(cgiMarker) - 1)
       ELSE IF Index(uri, indexCGIMarker) # 0
       THEN SubSeq(uri, 1, Index(uri, indexCGIMarker) + Len(indexCGIMarker) - 1)
       ELSE <<>>

\* the REQUEST_URI values the gateway may hand over
RequestURIs == SeqsUpTo({"/", "?", "a", "go-", "index.cgi"}, MaxURILen)

IdleCgi == [pc |-> "none", uri |-> <<>>, prefix |-> <<>>, path |-> <<>>, query |-> <<>>]

\* the gateway starts the process for one request; runCGIMode derives the
\* prefix of DocServerPath from REQUEST_URI
RunCGIMode ==
    /\ cg.pc = "none"
    /\ \E uri \in RequestURIs :
         cg' = [IdleCgi EXCEPT !.pc = "serving", !.uri = uri, !.prefix = extractCGIPrefix(uri)]
    /\ UNCHANGED <<fsVars, settingsFile, now, cb, jw, baseURL, ed, cv, dk, gs, px>>

\* cgiAdapter.ServeHTTP: the request gets the recovered path and query
CgiServeHTTP ==
    /\ cg.pc = "serving"
    /\ cg' = [cg EXCEPT !.pc = "served", !.path = extractPathFromRequestURI(cg.uri).path,
                        !.query = extractPathFromRequestURI(cg.uri).query]
    /\ UNCHANGED <<fsVars, settingsFile, now, cb, jw, baseURL, ed, cv, dk, gs, px>>

\* the process ends with its request
CgiExit ==
    /\ cg.pc = "served"
    /\ cg' = IdleCgi
    /\ UNCHANGED <<fsVars, settingsFile, now, cb, jw, baseURL, ed, cv, dk, gs, px>>

\* ------------------------------------------ the file service, one caller
BasePaths == {<<>>, <<"/", "r">>}
PathChars == {"/", ".", "r"}
AllPaths == SeqsUpTo(PathChars, MaxPathLen)

\* no request of any other kind is in progress
InitExt ==
    /\ cv = [p \in Procs |-> IdleConvert]
    /\ dk = {}
    /\ gs = <<>>
    /\ px = IdleProxy
    /\ cg = IdleCgi

InitFs ==
    /\ InitExt
    /\ cb = [p \in Procs |-> IdleCallback]
    /\ dirs = {Root}
    /\ dir = <<>>
    /\ files = [i \in Inodes |-> <<>>]
    /\ want = [i \in Inodes |-> <<>>]
    /\ lastRename = <<>>
    /\ sv = [p \in Procs |-> IdleSave]
    /\ calls = 0
    /\ rd = IdleRead
    /\ api = NoCall

\* streams that differ in length only
PlainBodies == {<<>>, <<0>>}

InitRest ==
    /\ settingsFile = NoSettings
    /\ now = 0
    /\ jw = NoJwt
    /\ baseURL = <<>>
    /\ ed = NoEd

InitFile ==
    /\ InitFs
    /\ InitRest
    /\ basePath \in BasePaths
    /\ maxFileSize = 0
    /\ active = {1}
    /\ paths \in {{p} : p \in AllPaths}

NextFile ==
    \/ GetFileInfo
    \/ GetFileContent
    \/ ReadAll
    \/ \E p \in Procs : SaveFile(p, PlainBodies)
    \/ \E p \in Procs : SaveCopy(p)
    \/ \E p \in Procs : SaveClose(p)
    \/ \E p \in Procs : SaveRename(p)
    \/ \E p \in Procs : SaveDefer(p)
    \/ \E p \in Procs : SaveReturn(p)

vars == <<fsVars, others>>

SpecFile == InitFile /\ [][NextFile]_vars

\* ------------------------------------------------ the callback endpoint
CallbackPaths == {<<"a">>, <<"/", "r", "/", "a">>}

Init ==
    /\ InitFs
    /\ basePath \in BasePaths
    /\ maxFileSize \in 0..MaxCap
    /\ active = {1}
    /\ paths \in {{p} : p \in CallbackPaths}
    /\ settingsFile \in SettingsFiles
    /\ now = MaxTime
    /\ jw = NoJwt
    /\ baseURL = <<>>
    /\ ed = NoEd

Next ==
    \/ \E p \in Procs : HandleCallback(p)
    \/ \E p \in Procs : SaveCopy(p)
    \/ \E p \in Procs : SaveClose(p)
    \/ \E p \in Procs : SaveRename(p)
    \/ \E p \in Procs : SaveDefer(p)
    \/ \E p \in Procs : CallbackRespond(p)
    \/ \E p \in Procs : CallbackReturn(p)

Spec == Init /\ [][Next]_vars

\* ------------------------------------- the file service, concurrent callers
\* two one-byte streams: a save is partial until its byte is written
ShortBodies == {<<0>>, <<1>>}

InitConc ==
    /\ InitFs
    /\ InitRest
    /\ basePath = <<>>
    /\ maxFileSize = 0
    /\ active = Procs
    /\ paths = {<<"/", "r", "/", "a">>}

NextConc ==
    \/ GetFileContent
    \/ ReadAll
    \/ \E p \in Procs : SaveFile(p, ShortBodies)
    \/ \E p \in Procs : SaveCopy(p)
    \/ \E p \in Procs : SaveClose(p)
    \/ \E p \in Procs : SaveRename(p)
    \/ \E p \in Procs : SaveDefer(p)
    \/ \E p \in Procs : SaveReturn(p)

SpecConc == InitConc /\ [][NextConc]_vars

\* ------------------------------------------------------ the signing module
InitJwt ==
    /\ InitFs
    /\ basePath = <<>>
    /\ maxFileSize = 0
    /\ active = {}
    /\ paths = {}
    /\ settingsFile = NoSettings
    /\ now = 0
    /\ jw = NoJwt
    /\ baseURL = <<>>
    /\ ed = NoEd

NextJwt == JwtSign \/ JwtSignWithExpiry \/ JwtVerify \/ JwtReturn \/ Tick

SpecJwt == InitJwt /\ [][NextJwt]_vars

\* ------------------------------------------------- the session descriptor
\* the settings file and the -base-url the server starts with
DescSettings ==
    {[NoSettings EXCEPT !.state = st] : st \in {"missing", "corrupt"}}
    \cup [state : {"ok"}, secret : ConfigSecrets, serverURL : {<<>>, <<"d">>},
          baseURL : {<<>>, <<"b">>}]

InitDesc ==
    /\ InitFs
    /\ basePath = <<>>
    /\ maxFileSize = 0
    /\ active = {}
    /\ paths = {}
    /\ settingsFile \in DescSettings
    /\ now = 0
    /\ jw = NoJwt
    /\ baseURL \in {<<>>, <<"c">>, <<"c", "/">>}
    /\ ed = NoEd

NextDesc ==
    \/ EditorPage /\ UNCHANGED <<fsVars, settingsFile, now, cb, jw, extVars>>
    \/ EditorBuildConfig /\ UNCHANGED <<fsVars, settingsFile, now, cb, jw, extVars>>
    \/ SaveSettings /\ UNCHANGED <<fsVars, now, cb, jw, ed, extVars>>
    \/ DescriptorReturn /\ UNCHANGED <<fsVars, now, cb, jw, extVars>>

SpecDesc == InitDesc /\ [][NextDesc]_vars

\* ------------------------------------------------- the conversion endpoint
Doc == <<"d", "o", "c">>
\* the file the store holds when the server starts
ConvertSources ==
    {<<"/", "r", "/", "a", ".">> \o Doc, <<"/", "a", ".">> \o Doc,
     <<"/", "r", "/", "a", ".", "D", "O", "C">>, <<"/", "r", "/", "a", ".">> \o Docx,
     <<"/", "r", "/", "a">>}
\* the paths a conversion is asked for
ConvertPaths ==
    ConvertSources \cup {<<"a", ".">> \o Doc, <<"/", "r", "/", "a", ".">> \o Doc \o <<"/">>,
                         <<"/", "r", "/", "/", "a", ".">> \o Doc}
\* the bytes of the source file: no download carries them
SourceBytes == <<1, 1>>

InitConv ==
    /\ InitExt
    /\ cb = [p \in Procs |-> IdleCallback]
    /\ dir \in {(src :> 1) : src \in ConvertSources}
    /\ dirs = Ancestors(Dir(CHOOSE src \in DOMAIN dir : TRUE))
    /\ files = [i \in Inodes |-> IF i = 1 THEN SourceBytes ELSE <<>>]
    /\ want = files
    /\ lastRename = <<>>
    /\ sv = [p \in Procs |-> IdleSave]
    /\ calls = 0
    /\ rd = IdleRead
    /\ api = NoCall
    /\ basePath \in BasePaths
    /\ maxFileSize = 0
    /\ active = {1}
    /\ paths \in {{p} : p \in ConvertPaths}
    /\ settingsFile \in DescSettings
    /\ now = 0
    /\ jw = NoJwt
    /\ baseURL = <<>>
    /\ ed = NoEd

NextConv ==
    \/ \E p \in Procs : HandleConvert(p)
    \/ \E p \in Procs : SaveCopy(p)
    \/ \E p \in Procs : SaveClose(p)
    \/ \E p \in Procs : SaveRename(p)
    \/ \E p \in Procs : SaveDefer(p)
    \/ \E p \in Procs : ConvertRespond(p)
    \/ \E p \in Procs : ConvertReturn(p)

SpecConv == InitConv /\ [][NextConv]_vars

\* ------------------------------------- the file service with a size cap
\* streams of every length an int64 counts
CapBodies == {[i \in 1..k |-> 0] : k \in 0..MaxInt64}

InitCap ==
    /\ InitFs
    /\ InitRest
    /\ basePath \in BasePaths
    /\ maxFileSize \in 1..MaxInt64
    /\ active = {1}
    /\ paths = {<<"/", "r", "/", "a">>}

NextCap ==
    \/ GetFileContent
    \/ ReadAll
    \/ \E p \in Procs : SaveFile(p, CapBodies)
    \/ \E p \in Procs : SaveCopy(p)
    \/ \E p \in Procs : SaveClose(p)
    \/ \E p \in Procs : SaveRename(p)
    \/ \E p \in Procs : SaveDefer(p)
    \/ \E p \in Procs : SaveReturn(p)

SpecCap == InitCap /\ [][NextCap]_vars

\* ------------------------------------------------------- the document key
InitKey ==
    /\ InitFs
    /\ InitRest
    /\ basePath = <<>>
    /\ maxFileSize = 0
    /\ active = {}
    /\ paths = {}

NextKey == GetDocumentKey \/ Tick

SpecKey == InitKey /\ [][NextKey]_vars

\* ------------------------------------------- keys of the editor page
NextSpell == EditorKey \/ Tick

SpecSpell == InitKey /\ [][NextSpell]_vars

\* ------------------------------------- the editor page and the convert page
NextPages ==
    \/ PageEditor /\ UNCHANGED <<fsVars, settingsFile, now, cb, jw, extVars>>
    \/ PageConvert /\ UNCHANGED <<fsVars, settingsFile, now, cb, jw, extVars>>
    \/ FollowToConvert /\ UNCHANGED <<fsVars, settingsFile, now, cb, jw, extVars>>
    \/ FollowToEditor /\ UNCHANGED <<fsVars, settingsFile, now, cb, jw, extVars>>
    \/ DescriptorReturn /\ UNCHANGED <<fsVars, now, cb, jw, extVars>>

SpecPages == InitDesc /\ [][NextPages]_vars

\* --------------------------------------------------- the secret generator
NextSecret == GenerateKey \/ Tick

SpecSecret == InitKey /\ [][NextSecret]_vars

\* ------------------------------------------------------- the reverse proxy
InitProxy ==
    /\ InitFs
    /\ basePath = <<>>
    /\ maxFileSize = 0
    /\ active = {}
    /\ paths = {}
    /\ settingsFile \in DescSettings
    /\ now = 0
    /\ jw = NoJwt
    /\ baseURL = <<>>
    /\ ed = NoEd

NextProxy == HandleDocServerProxy(ProxyRequests) \/ ProxyForward \/ ProxyRoundTrip \/ ProxyReturn

SpecProxy == InitProxy /\ [][NextProxy]_vars

\* ------------------------- the reverse proxy: paths and WebSocket handshakes
\* the Document Server URL the server was started with: none, a bare host, or
\* a host with a path
RewriteSettings ==
    {[NoSettings EXCEPT !.state = "ok", !.serverURL = u] :
       u \in {<<>>, <<"d">>, <<"d", "/">>, <<"d", "/", "b">>, <<"d", "/", "b", "/">>}}

InitRewrite ==
    /\ InitFs
    /\ basePath = <<>>
    /\ maxFileSize = 0
    /\ active = {}
    /\ paths = {}
    /\ settingsFile \in RewriteSettings
    /\ now = 0
    /\ jw = NoJwt
    /\ baseURL = <<>>
    /\ ed = NoEd

NextRewrite ==
    HandleDocServerProxy(RewriteRequests) \/ ProxyForward \/ ProxyRoundTrip \/ ProxyReturn

SpecRewrite == InitRewrite /\ [][NextRewrite]_vars

\* --------------------------------------------------------- the CGI adapter
NextCgi == RunCGIMode \/ CgiServeHTTP \/ CgiExit

SpecCgi == InitKey /\ [][NextCgi]_vars

\* ------------------------------------------------------------- properties
\* a name os.CreateTemp made
IsTemp(n) == Len(n) >= 2 /\ n[Len(n) - 1] = ".tmp-"
NoTempFiles == \A n \in DOMAIN dir : ~IsTemp(n)

\* the callback goroutine p has answered a request that passed the path,
\* body, settings and token checks
Answered(p) == cb[p].pc = "done"
Passed(p) == Answered(p) /\ cb[p].gate \in {"pass", "verified"}

\* C1: a Saved or ForceSave callback with a path and a URL that serves its
\* bytes with HTTP 200, no secret configured or a verifying token, no I/O
\* fault and no more bytes than a configured cap allows, is answered
\* {"error":0} and the file at the path holds those bytes.
C1_SaveIntegrity ==
    \A p \in Procs :
        (/\ Passed(p)
         /\ SavesDocument(cb[p].req.status)
         /\ cb[p].req.url # ""
         /\ cb[p].got.kind = "ok"
         /\ sv[p].fault = "none"
         /\ (maxFileSize = 0 \/ Len(cb[p].got.body) <= maxFileSize))
        => /\ cb[p].resp = 0
           /\ StoredAt(cb[p].req.path) = [exists |-> TRUE, data |-> cb[p].got.body]

\* C2: with a secret configured, a callback with no token or with a token
\* that does not verify is answered {"error":1} whatever its status, with no
\* download and no write; an Editing or Closed callback whose token verifies
\* is answered {"error":0}.
C2_TokenRequired ==
    \A p \in Procs :
        (Answered(p) /\ settingsFile.state = "ok" /\ settingsFile.secret # "")
        => /\ (\/ cb[p].req.token = NoToken
               \/ Verify(settingsFile.secret, cb[p].req.token, now).err # "nil")
              => /\ cb[p].resp = 1
                 /\ cb[p].got = NoDownload
                 /\ ~cb[p].stored
                 /\ StoredAt(cb[p].req.path) = cb[p].before
           /\ (/\ cb[p].req.path # <<>>
               /\ cb[p].req.wellFormed
               /\ Verify(settingsFile.secret, cb[p].req.token, now).err = "nil"
               /\ cb[p].req.status \in {StatusEditing, StatusClosed})
              => cb[p].resp = 0

C2_Witness ==
    \E p \in Procs :
        /\ Answered(p)
        /\ settingsFile.secret = "s1"
        /\ cb[p].req.token = Sign("s2", CallbackClaims)
        /\ cb[p].req.status = StatusSaved
        /\ cb[p].req.url # ""
        /\ cb[p].before.exists
        /\ cb[p].resp = 1

\* C4: a Saved or ForceSave callback with an empty URL, a failed or non-200
\* download, or a failed store save is answered {"error":1}; the file at its
\* path is as it was before the request and no temporary file is left.
C4_FailureLeavesFile ==
    \A p \in Procs :
        (/\ Passed(p)
         /\ SavesDocument(cb[p].req.status)
         /\ \/ cb[p].req.url = ""
            \/ cb[p].got.kind \in {"failed", "status"}
            \/ cb[p].stored /\ api.op = "SaveFile" /\ api.err # "nil")
        => /\ cb[p].resp = 1
           /\ StoredAt(cb[p].req.path) = cb[p].before
           /\ NoTempFiles

C4_Witness ==
    \E p \in Procs :
        /\ Passed(p)
        /\ cb[p].req.status = StatusForceSave
        /\ cb[p].stored
        /\ api.err = "SaveFailed"
        /\ sv[p].fault = "rename"
        /\ cb[p].before.exists
        /\ cb[p].got.body # cb[p].before.data
        /\ cb[p].resp = 1

\* C6: a callback without a path is answered {"error":1} whatever its body,
\* status or token; the path check ends the call before the token is
\* verified, a download is made or the store is written.
C6_PathFirst ==
    \A p \in Procs :
        (Answered(p) /\ cb[p].req.path = <<>>)
        => /\ cb[p].resp = 1
           /\ cb[p].gate = "nopath"
           /\ cb[p].got = NoDownload
           /\ ~cb[p].stored
           /\ StoredAt(cb[p].req.path) = cb[p].before

C6_Witness ==
    \E p \in Procs :
        /\ Answered(p)
        /\ cb[p].req.path = <<>>
        /\ cb[p].req.wellFormed
        /\ cb[p].req.status = StatusSaved
        /\ cb[p].req.url # ""
        /\ settingsFile.secret = "s1"
        /\ cb[p].req.token = Sign("s1", CallbackClaims)
        /\ cb[p].resp = 1

\* C7: a callback that passed the path and token checks and whose status is
\* not Saved or ForceSave (Editing, SaveError, Closed, ForceSaveError or an
\* unknown code) is answered {"error":0} with no download and no write.
C7_OtherStatuses ==
    \A p \in Procs :
        (Passed(p) /\ cb[p].req.status \notin {StatusSaved, StatusForceSave})
        => /\ cb[p].resp = 0
           /\ cb[p].got = NoDownload
           /\ ~cb[p].stored
           /\ StoredAt(cb[p].req.path) = cb[p].before

C7_Witness ==
    \E p \in Procs :
        /\ Passed(p)
        /\ cb[p].req.status = StatusUnknown
        /\ cb[p].req.url # ""
        /\ cb[p].before.exists
        /\ cb[p].resp = 0

\* C3: under concurrent SaveFile calls and readers the destination always
\* holds the complete stream of one save, a reader never gets a partly
\* written file, and once all calls are over the destination holds the stream
\* of the last completed rename.
C3_AtomicReplace ==
    /\ \A n \in DOMAIN dir : ~IsTemp(n) => files[dir[n]] = want[dir[n]]
    /\ (api.op = "GetFileContent" /\ api.err = "nil") => api.data = api.whole
    /\ InFlight = 0 =>
         \A n \in DOMAIN lastRename : n \in DOMAIN dir /\ files[dir[n]] = lastRename[n]

\* a location is the root directory or lies below it
WithinBase(absPath, absBase) ==
    \/ absPath = absBase
    \/ absBase = Root
    \/ HasPrefix(absPath, absBase \o <<"/">>)

\* C5: with a root configured, a path a call accepts resolves to the root or
\* below it; a path outside, through .. or through a sibling directory whose
\* name starts with the root's name, is refused with InvalidPath.
C5_InsideRoot ==
    (basePath # <<>> /\ api.op # "none" /\ api.err # "InvalidPath")
    => WithinBase(api.full, Abs(basePath))

\* two claim maps with the same keys, equal strings and equal numbers
Equivalent(a, b) ==
    /\ DOMAIN a = DOMAIN b
    /\ \A k \in DOMAIN a :
         \/ a[k].t = "str" /\ b[k].t = "str" /\ a[k].s = b[k].s
         \/ a[k].t # "str" /\ b[k].t # "str" /\ a[k].n = b[k].n

\* the last call verified the token that jw.secret signed over jw.claims
VerifiedSigned == jw.op = "Verify" /\ jw.token = Sign(jw.secret, jw.claims)

\* exp and nbf, where the claim map has them, are numbers and the clock is
\* before exp and not before nbf
TimeValid(claims, t) ==
    /\ "exp" \in DOMAIN claims => claims["exp"].t # "str" /\ t < claims["exp"].n
    /\ "nbf" \in DOMAIN claims => claims["nbf"].t # "str" /\ ~(t < claims["nbf"].n)

\* what C8 says of the other secret, the empty and the malformed token
RejectsForeign ==
    /\ (VerifiedSigned /\ jw.key # jw.secret) => jw.res.err = "InvalidToken"
    /\ (jw.op = "Verify" /\ jw.token \in {NoToken, Malformed}) => jw.res.err = "InvalidToken"

\* C8 as stated: for any claim map and secret, verifying a signed token
\* under the signing secret succeeds with equivalent claims; under another
\* secret, and for the empty and a malformed token, it fails with InvalidToken.
C8_AnyClaims ==
    /\ (VerifiedSigned /\ jw.key = jw.secret)
       => jw.res.err = "nil" /\ Equivalent(jw.res.claims, jw.claims)
    /\ RejectsForeign

\* C8, amended: the round trip succeeds for every secret and every claim map
\* whose exp and nbf, where present, are numbers valid at the time of the
\* verification; the rejections hold for every claim map.
C8_RoundTrip ==
    /\ (VerifiedSigned /\ jw.key = jw.secret /\ TimeValid(jw.claims, jw.at))
       => jw.res.err = "nil" /\ Equivalent(jw.res.claims, jw.claims)
    /\ RejectsForeign

C8_Witness ==
    /\ VerifiedSigned
    /\ jw.key = jw.secret
    /\ jw.secret # ""
    /\ DOMAIN jw.claims = ClaimKeys
    /\ jw.res.err = "nil"
    /\ jw.res.claims["exp"] = Float(MaxTime)

\* a descriptor was produced
Produced == ed.out = "descriptor"

\* C9: a descriptor carries a token exactly when a non-empty secret is
\* configured; the token verifies under that secret, and its claims are the
\* descriptor's document, documentType and editorConfig.
C9_TokenIffSecret ==
    Produced =>
        /\ ed.config.token # NoToken <=> ed.secret # ""
        /\ ed.config.token # NoToken =>
             LET res == Verify(ed.secret, ed.config.token, now)
             IN /\ res.err = "nil"
                /\ DOMAIN res.claims = {"document", "documentType", "editorConfig"}
                /\ res.claims["document"] = Obj(ed.config.document)
                /\ res.claims["documentType"] = Str(ed.config.documentType)
                /\ res.claims["editorConfig"] = Obj(ed.config.editorConfig)

C9_Witness ==
    /\ Produced
    /\ ed.op = "editor"
    /\ ed.secret = "s1"
    /\ ed.config.token # NoToken
    /\ ed.config.editorConfig.mode = "edit"

\* C10: the descriptor's mode is edit exactly when the extension is editable
\* and view mode was not asked for, and view otherwise; permissions.edit is
\* true exactly when the mode is edit; a convertible or view-only extension
\* never gets mode edit.
C10_EditMode ==
    Produced =>
        LET f == GetFormat(ed.ext).f
            mode == ed.config.editorConfig.mode
        IN /\ mode = "edit" <=> (f.Editable /\ ~ed.view)
           /\ mode # "edit" => mode = "view"
           /\ ed.config.document.permissions.edit <=> mode = "edit"
           /\ (f.Convertible \/ f.ViewOnly) => mode # "edit"

C10_Witness ==
    /\ Produced
    /\ ed.op = "editor"
    /\ ed.ext = Docx
    /\ ed.view
    /\ ed.config.editorConfig.mode = "view"
    /\ ~ed.config.document.permissions.edit

\* the remote answer reports a finished conversion and where its result is
Complete(reply) ==
    /\ reply.kind = "answered"
    /\ reply.status = 200
    /\ reply.parses
    /\ reply.Error = 0
    /\ reply.EndConvert
    /\ reply.FileURL # ""

\* C11: a conversion is answered with success only if the remote answer had
\* HTTP status 200, error code 0, endConvert = true and a non-empty fileUrl;
\* on any other answer, endConvert = false with error 0 included, the
\* conversion fails, the result is not downloaded and the files and
\* directories of the store stay as they were
C11_OnlyCompleteAnswers ==
    [][\A p \in Procs :
         /\ (cv'[p].pc = "done" /\ cv'[p].status = 200) => Complete(cv'[p].reply)
         /\ (/\ cv[p].pc = "idle"
             /\ cv'[p].pc # "idle"
             /\ cv'[p].reply # NoReply
             /\ ~Complete(cv'[p].reply))
            => /\ cv'[p].pc = "done"
               /\ cv'[p].status # 200
               /\ ~cv'[p].fetched
               /\ UNCHANGED <<dirs, dir, files>>]_vars

\* an asynchronous answer (endConvert = false, error 0, a fileUrl) was refused
C11_Witness ==
    \E p \in Procs :
        /\ cv[p].pc = "done"
        /\ cv[p].reply.kind = "answered"
        /\ cv[p].reply.status = 200
        /\ cv[p].reply.Error = 0
        /\ ~cv[p].reply.EndConvert
        /\ cv[p].reply.FileURL # ""
        /\ cv[p].status = 500
        /\ ~cv[p].fetched

\* a file name without its last dot and what follows it, and what follows it
LastDot(name) == CHOOSE i \in 0..Len(name) :
                     /\ i > 0 => name[i] = "."
                     /\ \A j \in (i + 1)..Len(name) : name[j] # "."
StemOf(name) == SubSeq(name, 1, LastDot(name) - 1)
SuffixOf(name) == SubSeq(name, LastDot(name) + 1, Len(name))

\* the conversion on goroutine p was answered with success
Converted(p) == cv[p].pc = "done" /\ cv[p].status = 200

\* C12: after a successful conversion of source path P whose extension has
\* conversion target T, the path reported to the caller names the file in
\* P's directory whose name is P's base name with the extension replaced by
\* T, and that file holds the downloaded bytes
C12_TargetBesideSource ==
    \A p \in Procs :
        Converted(p) =>
            LET source == resolvePath(basePath, cv[p].path)
                target == resolvePath(basePath, cv[p].reported)
                name == Base(source.path)
                T == formats[ToLower(SuffixOf(name))].ConvertTarget
            IN /\ source.ok
               /\ target.ok
               /\ LastDot(name) > 0
               /\ Dir(target.path) = Dir(source.path)
               /\ Base(target.path) = StemOf(name) \o Dot \o T
               /\ StoredAt(cv[p].reported) = [exists |-> TRUE, data |-> cv[p].got.body]

\* /r/a.doc was converted and /r/a.docx reported
C12_Witness ==
    \E p \in Procs :
        /\ Converted(p)
        /\ cv[p].path = <<"/", "r", "/", "a", ".", "d", "o", "c">>
        /\ cv[p].reported = <<"/", "r", "/", "a", ".", "d", "o", "c", "x">>
        /\ cv[p].got.body # <<>>

\* the destination holds what the last completed rename put there, or is absent
DestinationAsLeft(full) ==
    IF full \in DOMAIN lastRename
    THEN full \in DOMAIN dir /\ files[dir[full]] = lastRename[full]
    ELSE full \notin DOMAIN dir

C14_BareNameUnderRoot ==
    \A p \in Procs :
        (/\ Passed(p)
         /\ basePath # <<>>
         /\ ~HasPrefix(cb[p].req.path, Root)
         /\ SavesDocument(cb[p].req.status)
         /\ cb[p].req.url # ""
         /\ cb[p].got.kind = "ok"
         /\ sv[p].fault = "none"
         /\ (maxFileSize = 0 \/ Len(cb[p].got.body) <= maxFileSize))
        => LET full == Join(basePath, cb[p].req.path)
           IN /\ cb[p].resp = 0
              /\ full \in DOMAIN dir
              /\ files[dir[full]] = cb[p].got.body

\* how many of the three capabilities a format has
Capabilities(f) ==
    Cardinality({c \in {"Editable", "ViewOnly", "Convertible"} : f[c]})

\* C15: every extension of the registry has exactly one of Editable,
\* ViewOnly and Convertible; GetConvertTarget of every convertible extension
\* is a non-empty extension of the registry that is editable; and the target
\* a conversion request looked up is editable
C15_TargetsEditable ==
    /\ \A ext \in DOMAIN formats :
         /\ Capabilities(formats[ext]) = 1
         /\ formats[ext].Convertible
              => /\ GetConvertTarget(ext) # <<>>
                 /\ GetConvertTarget(ext) \in DOMAIN formats
                 /\ IsEditable(GetConvertTarget(ext))
                 /\ ~IsConvertible(GetConvertTarget(ext))
    /\ \A p \in Procs : cv[p].target # <<>> => IsEditable(cv[p].target)

\* a conversion request for a .DOC file looked up its target, docx
C15_Witness ==
    \E p \in Procs :
        /\ cv[p].pc = "done"
        /\ cv[p].info.Extension = <<"d", "o", "c">>
        /\ cv[p].target = Docx
        /\ cv[p].status = 200

\* a string of n lower-case hex characters
IsLowerHex(text, n) ==
    /\ Len(text) = n
    /\ \A i \in 1..n : text[i] \in Range(HexDigits)

C17_FreshHexSecrets ==
    /\ \A i \in 1..Len(gs) : IsLowerHex(gs[i], 32)
    /\ \A i, j \in 1..Len(gs) : i # j => gs[i] # gs[j]

\* C18: the lang of every descriptor is a lower-case code of 2 characters:
\* "en" when no language was asked for, "zh" when the language asked for
\* starts with zh in any case, and otherwise the first two characters of the
\* language asked for, in lower case
C18_TwoLetterLang ==
    ed.out = "descriptor" =>
        LET lang == ed.config.editorConfig.lang
            asked == ToLower(ed.lang)
        IN /\ Len(lang) = 2
           /\ lang = ToLower(lang)
           /\ asked = <<>> => lang = <<"e", "n">>
           /\ HasPrefix(asked, <<"z", "h">>) => lang = <<"z", "h">>
           /\ (Len(asked) >= 2 /\ ~HasPrefix(asked, <<"z", "h">>))
                => lang = SubSeq(asked, 1, 2)

\* the address without its port, as net.SplitHostPort splits it
StripPort(addr) == IF SplitHostPort(addr).ok THEN SplitHostPort(addr).host ELSE addr

\* the X-Forwarded-For lines the outbound request is to carry: the client
\* address alone, or after the chain the inbound request brought
ForwardedForWanted(req) ==
    LET inbound == HeaderLines(req.Header, "X-Forwarded-For")
        client == StripPort(GetOriginalRemoteAddr(req))
    IN IF inbound = <<>> THEN {<<client>>}
       ELSE {<<chain \o <<", ">> \o client>> : chain \in {inbound[1], JoinComma(inbound)}}

\* C19: every request sent for a client with a known address carries exactly
\* one X-Forwarded-For line, the client address without its port, after the
\* inbound chain when there was one, and no X-Kiro-Forwarded-For line
C19_OneForwardedFor ==
    (px.pc = "sent" /\ GetOriginalRemoteAddr(px.req) # <<>>) =>
        /\ HeaderLines(px.outreq.Header, "X-Forwarded-For") \in ForwardedForWanted(px.req)
        /\ HeaderLines(px.outreq.Header, "X-Kiro-Forwarded-For") = <<>>

\* the first line of a header, and the fallback when there is none
Preferring(h, key, fallback) == IF HeaderGet(h, key) # <<>> THEN HeaderGet(h, key) ELSE fallback

\* C20: the request sent carries the inbound X-Forwarded-Host when there was
\* one and the inbound Host otherwise, and the inbound X-Forwarded-Proto when
\* there was one, otherwise https on a TLS connection and http on a plain one
C20_UpstreamHeadersWin ==
    px.pc = "sent" =>
        /\ HeaderGet(px.outreq.Header, "X-Forwarded-Host")
             = Preferring(px.req.Header, "X-Forwarded-Host", px.req.Host)
        /\ HeaderGet(px.outreq.Header, "X-Forwarded-Proto")
             = Preferring(px.req.Header, "X-Forwarded-Proto",
                          IF px.req.TLS THEN <<"https">> ELSE <<"http">>)

\* the path under the remote base for what follows the mount point
UnderBase(rest) ==
    LET joined == singleJoiningSlash(TargetPath, rest)
    IN IF joined = <<>> THEN <<"/">> ELSE joined

\* C21: a request to /doc-svr<rest> is sent to <rest> under the remote base
\* URL, whether that URL has a path of its own or not
C21_PrefixStripped ==
    px.pc = "sent" =>
        px.outreq.Path = UnderBase(SubSeq(px.req.Path, Len(DocSvr) + 1, Len(px.req.Path)))

\* the first line of the header has the word, in any case
HasWord(h, key, word) == \E i \in DOMAIN HeaderGet(h, key) : LowerWord(HeaderGet(h, key)[i]) = word

\* C22: when the Upgrade header has websocket and the Connection header has
\* upgrade, in any case, each handshake header is sent with every line it
\* came with
C22_HandshakeUntouched ==
    (/\ px.pc = "sent"
     /\ HasWord(px.req.Header, "Upgrade", "websocket")
     /\ HasWord(px.req.Header, "Connection", "upgrade")) =>
        \A key \in WebSocketHeaders :
            HeaderLines(px.outreq.Header, key) = HeaderLines(px.req.Header, key)

\* the text after the first go-index.cgi, and its parts before and after
\* its first "?"
AfterMarker(uri) == SubSeq(uri, Index(uri, cgiMarker) + Len(cgiMarker), Len(uri))
BeforeMark(text) ==
    IF Index(text, <<"?">>) = 0 THEN text ELSE SubSeq(text, 1, Index(text, <<"?">>) - 1)
AfterMark(text) ==
    IF Index(text, <<"?">>) = 0 THEN <<>> ELSE SubSeq(text, Index(text, <<"?">>) + 1, Len(text))
\* the "/" normalization: a path of "/" counts as the empty path
Unslashed(path) == IF path = <<"/">> THEN <<>> ELSE path
Rebuilt(path, query) == Unslashed(path) \o (IF query # <<>> THEN <<"?">> \o query ELSE <<>>)

\* what the recovery is to return for a URI, and that the path has no "?"
Recovered(uri) ==
    IF Index(uri, cgiMarker) = 0
    THEN cg.path = <<"/">> /\ cg.query = <<>>
    ELSE /\ cg.path = (IF BeforeMark(AfterMarker(uri)) \in {<<>>, <<"/">>}
                       THEN <<"/">> ELSE BeforeMark(AfterMarker(uri)))
         /\ cg.query = AfterMark(AfterMarker(uri))
         /\ \A i \in DOMAIN cg.path : cg.path[i] # "?"

\* C23 as stated: the recovered path and query are the two sides of the
\* first "?" after the marker, and path plus "?query" is the text after the
\* marker again, for every URI with the marker
C23_Stated ==
    cg.pc = "served" =>
        /\ Recovered(cg.uri)
        /\ Index(cg.uri, cgiMarker) # 0 =>
              Rebuilt(cg.path, cg.query)
                = Unslashed(BeforeMark(AfterMarker(cg.uri)))
                  \o SubSeq(AfterMarker(cg.uri), Len(BeforeMark(AfterMarker(cg.uri))) + 1,
                            Len(AfterMarker(cg.uri)))

\* C23: the recovered path and query are the two sides of the first "?"
\* after the marker, and path plus "?query" is the text after the marker
\* again unless that text has nothing after its first "?"
C23_PathRecovery ==
    cg.pc = "served" =>
        /\ Recovered(cg.uri)
        /\ (/\ Index(cg.uri, cgiMarker) # 0
            /\ ~(Index(AfterMarker(cg.uri), <<"?">>) # 0 /\ AfterMark(AfterMarker(cg.uri)) = <<>>)) =>
              Rebuilt(cg.path, cg.query)
                = Unslashed(BeforeMark(AfterMarker(cg.uri)))
                  \o SubSeq(AfterMarker(cg.uri), Len(BeforeMark(AfterMarker(cg.uri))) + 1,
                            Len(AfterMarker(cg.uri)))

\* a URI with the marker, a path and a query after it has been served
C23_Witness ==
    /\ cg.pc = "served"
    /\ cg.uri = <<"/", "go-", "index.cgi", "/", "a">> \/ cg.uri = <<"go-", "index.cgi", "/", "?", "a">>
    /\ cg.path # <<>>

\* C28: when extractCGIPrefix finds a prefix, the recovered path and query
\* are the two sides of the first "?" in what follows that prefix in the URI
C28_HelpersAgree ==
    (cg.pc = "served" /\ cg.prefix # <<>>) =>
        LET rest == SubSeq(cg.uri, Len(cg.prefix) + 1, Len(cg.uri))
        IN /\ cg.path = (IF BeforeMark(rest) \in {<<>>, <<"/">>} THEN <<"/">> ELSE BeforeMark(rest))
           /\ cg.query = AfterMark(rest)

\* the claims name the callback they came with: its key, status and url
Agrees(claims, req) ==
    /\ {"key", "status", "url"} \subseteq DOMAIN claims
    /\ claims["key"] = Str("k")
    /\ claims["status"] = JSONValue(Num(req.status))
    /\ claims["url"] = Str(req.url)

\* C24: with a secret configured, a callback is downloaded and stored only
\* when the claims of its verified token are those of the callback itself
C24_ClaimsBindCallback ==
    \A p \in Procs :
        (cb[p].stored /\ settingsFile.state = "ok" /\ settingsFile.secret # "") =>
            LET v == Verify(settingsFile.secret, cb[p].req.token, now)
            IN v.err = "nil" /\ Agrees(v.claims, cb[p].req)

\* C25: in every descriptor the editor page produces, the download URL and the
\* callback URL have the same base URL and the same URL-encoded path
C25_SameBaseAndPath ==
    (ed.op = "editor" /\ ed.out = "descriptor") =>
        /\ ed.config.document.url.base = ed.config.editorConfig.callbackUrl.base
        /\ ed.config.document.url.path = ed.config.editorConfig.callbackUrl.path

\* C26: two descriptors built for the same stored file with the same
\* modification time carry the same key, however the request spelled the path
C26_KeyOfTheFile ==
    \A a, b \in dk : (a.file = b.file /\ a.modTime = b.modTime) => a.key = b.key

\* C27: under concurrent SaveFile calls in one directory, no cleanup removes
\* the temporary file of a save still in progress: from os.CreateTemp to its
\* own rename a call's temporary name stays in the directory and names the
\* file the call created; and once every call has returned no temporary file
\* is left
C27_OwnTempOnly ==
    /\ \A p \in Procs :
         sv[p].pc \in {"copy", "close", "rename"} =>
            /\ sv[p].tempPath \in DOMAIN dir
            /\ sv[p].fd # 0 => dir[sv[p].tempPath] = sv[p].fd
    /\ InFlight = 0 => \A n \in DOMAIN dir : ~IsTemp(n)

\* a page was rendered: the editor, the convert page or an error page
Rendered == ed.out \in {"descriptor", "page", "error"}

\* C29: a GET /editor or /convert is answered with a rendered page after at
\* most one redirect, for every extension and mode: a page reached through a
\* redirect never redirects again; the editor page redirects only a
\* convertible format not in view mode, the convert page only a format with
\* no conversion target
C29_OneRedirect ==
    /\ ed.op \in {"editor", "convert"} => (Rendered \/ (ed.out = "redirect" /\ ed.hops = 0))
    /\ (ed.op = "editor" /\ ed.out = "redirect") => (IsConvertible(ed.ext) /\ ~ed.view)
    /\ (ed.op = "convert" /\ ed.out = "redirect") => GetConvertTarget(ed.ext) = <<>>

\* both redirects were followed: from the editor page of a doc file to its
\* convert page, from the convert page of a docx file to its editor
C29_Witness ==
    /\ ed.hops = 1
    /\ \/ ed.op = "convert" /\ ed.out = "page" /\ ed.ext = <<"d", "o", "c">>
       \/ ed.op = "editor" /\ ed.out = "descriptor" /\ ed.ext = Docx

\* the names under which the store holds the source file
SourceNames == {n \in DOMAIN dir : dir[n] = 1}

\* C30: a conversion, whether it succeeds or fails at any step, leaves the
\* source file as it was: the source keeps its name and its bytes, the path
\* SaveFile is given never resolves to the source, and besides temporary
\* files at most one file, the destination, is added to the store
C30_SourceUntouched ==
    /\ \E src \in ConvertSources : SourceNames = {src}
    /\ files[1] = SourceBytes
    /\ \A p \in Procs :
         cv[p].pc = "saving" =>
            LET r == resolvePath(basePath, cv[p].targetPath)
            IN r.ok => r.path \notin SourceNames
    /\ Cardinality({n \in DOMAIN dir : n \notin SourceNames /\ ~IsTemp(n)}) <= 1

\* a conversion succeeded: the destination holds the downloaded bytes next to
\* the source
C30_Witness ==
    \E p \in Procs :
        /\ Converted(p)
        /\ \E n \in DOMAIN dir :
             /\ n \notin SourceNames /\ ~IsTemp(n)
             /\ files[dir[n]] = cv[p].got.body
             /\ files[dir[n]] # <<>>

====
